---------------------------- MODULE Spec2Model ----------------------------
(***************************************************************************)
(* Malaysian CPI analytics pipeline: extraction, raw load with audit log,  *)
(* staging transformation, mart transformation, S3 backup, and the two     *)
(* orchestrators (scripts/run_full_pipeline.py and the Airflow DAG).       *)
(*                                                                         *)
(* Tables are sequences of rows (records).  SQL NULL is the empty          *)
(* sequence; a numeric value (double precision in the warehouse) is an     *)
(* exact fraction <<n, d>> in lowest terms with d > 0, so the arithmetic   *)
(* of the queries is modelled exactly (floating-point rounding is          *)
(* abstracted).  Dates are month numbers.                                  *)
(***************************************************************************)
EXTENDS Integers, Sequences, FiniteSets, TLC

VARIABLES
    upstream_cpi,            \* rows the remote CPI resource returns
    upstream_columns,        \* columns present in the remote CPI resource
    upstream_categories,     \* rows the remote category dictionary returns
    file_cpi,                \* data/raw/cpi_latest.parquet (NULL: absent)
    file_categories,         \* data/raw/categories.parquet (NULL: absent)
    raw_cpi_data,            \* raw.cpi_data
    raw_categories,          \* raw.categories
    load_metadata,           \* raw.load_metadata (audit table)
    staging_categories,      \* staging.categories
    staging_cpi_monthly,     \* staging.cpi_monthly
    staging_states,          \* staging.states (dimension table)
    mart_inflation_by_state,    \* mart.inflation_by_state
    mart_inflation_by_category, \* mart.inflation_by_category
    mart_state_comparison,      \* mart.state_comparison
    s3_objects,              \* keys present in the bucket
    runner,                  \* "script" | "dag" | "mart": who drives the run
    pc,                      \* position of run_full_pipeline.main
    task_state,              \* Airflow task instance states
    tries,                   \* Airflow try number per task
    exit_code,               \* result of main (NULL while running)
    run,                     \* number of the current pipeline run
    calls,                   \* number of load_to_raw calls made so far
    last_call,               \* what the last load_to_raw call did (NULL: none yet)
    last_op,                 \* name of the last operation executed
    staging_steps,           \* steps completed by the last StagingTransformer.run_all
    staging_result,          \* its return value ("not_called" before the call)
    mart_steps,              \* derivations completed by the last MartTransformer.run_all
    mart_result,             \* its return value ("not_called" before the call)
    failed_stages,           \* stages in which an operation failed in this run
    backup_results,          \* outcome of the last upload_data_backup (NULL: not called)
    first_run_marts,         \* the first run in which every stage succeeded, and its mart tables
    last_staged,             \* staging.cpi_monthly as the last successful staging run wrote it
    audit_base,              \* number of audit rows before the first run
    pre,                     \* warehouse tables before the last operation
    faults,                  \* failures of the environment so far
    extracted,               \* outcome of the last extract_full (NULL: not called)
    validation               \* outcome of the last validate_staging (NULL: not called)

vars == <<upstream_cpi, upstream_columns, upstream_categories, file_cpi,
          file_categories, raw_cpi_data, raw_categories, load_metadata,
          staging_categories, staging_cpi_monthly, staging_states,
          mart_inflation_by_state, mart_inflation_by_category,
          mart_state_comparison, s3_objects, runner, pc, task_state, tries,
          exit_code, run, calls, last_call, last_op, staging_steps, staging_result, mart_steps,
          mart_result, failed_stages, backup_results, first_run_marts,
          last_staged, audit_base, pre, faults, extracted, validation>>

-----------------------------------------------------------------------------
(* SQL values *)

NULL == <<>>

RECURSIVE GCD(_, _)
GCD(a, b) == IF b = 0 THEN a ELSE GCD(b, a % b)

Abs(x) == IF x < 0 THEN -x ELSE x

\* The fraction n/d (d # 0) in lowest terms with a positive denominator.
Rat(n, d) ==
    LET g == GCD(Abs(n), Abs(d))
        s == IF d < 0 THEN -1 ELSE 1
    IN  <<(s * n) \div g, (s * d) \div g>>

Num(n) == <<n, 1>>

RDiv(a, b) == Rat(a[1] * b[2], a[2] * b[1])
RSub(a, b) == Rat(a[1] * b[2] - b[1] * a[2], a[2] * b[2])
RAdd(a, b) == Rat(a[1] * b[2] + b[1] * a[2], a[2] * b[2])
RMul(a, b) == Rat(a[1] * b[1], a[2] * b[2])
RLess(a, b) == a[1] * b[2] < b[1] * a[2]


\* SQL comparison of two non-null numbers, and the ordering of ORDER BY x DESC,
\* in which PostgreSQL puts NULL first (NULL sorts as larger than any value).
DescBefore(a, b) ==
    IF a = NULL THEN b # NULL
    ELSE IF b = NULL THEN FALSE
    ELSE RLess(b, a)

-----------------------------------------------------------------------------
(* Sequences as tables *)

\* Collation of the text columns: position in these lists.
StateNames == <<"A", "B", "C">>
DivisionNames == <<"01", "04", "07", "overall">>

Ord(names, x) == CHOOSE i \in 1..Len(names) : names[i] = x

\* seq sorted by the strict order Less; rows that Less does not separate keep
\* their order (PostgreSQL leaves the order of such rows unspecified; the
\* inputs of the model have unique sort keys wherever the order matters).
Sorted(seq, Less(_, _)) ==
    LET n == Len(seq)
        pos == [i \in 1..n |->
                  1 + Cardinality({j \in 1..n :
                        \/ Less(seq[j], seq[i])
                        \/ (~Less(seq[i], seq[j]) /\ j < i)})]
    IN  [p \in 1..n |-> seq[CHOOSE i \in 1..n : pos[i] = p]]

\* The rows of seq at the positions in I, in table order.
Pick(seq, I) ==
    LET n == Cardinality(I)
    IN  [p \in 1..n |->
           seq[CHOOSE i \in I : Cardinality({j \in I : j < i}) = p - 1]]

Range(seq) == {seq[i] : i \in 1..Len(seq)}

RECURSIVE Flatten(_)
Flatten(seqs) ==
    IF seqs = <<>> THEN <<>> ELSE Head(seqs) \o Flatten(Tail(seqs))

-----------------------------------------------------------------------------
(* StagingTransformer queries *)

\* SELECT ... FROM raw.categories WHERE digits = 2
CategoriesQuery(cats) ==
    LET two == SelectSeq(cats, LAMBDA c : c.digits = 2)
    IN  [i \in 1..Len(two) |->
           [division |-> two[i].division,
            category_name_en |-> two[i].desc_en,
            category_name_bm |-> two[i].desc_bm,
            category_level |-> two[i].digits]]

\* Mutant of Coalesce: the value itself, null or not.
CoalesceKeepsNull(v, default) == v

\* COALESCE(v, default)
Coalesce(v, default) == IF v # NULL THEN v ELSE default

\* Mutant of JoinedRows: an inner join, observations without category are dropped.
JoinedRowsInner(c, cats) ==
    LET m == SelectSeq(cats, LAMBDA cat : cat.division = c.division /\ cat.digits = 2)
    IN  [i \in 1..Len(m) |->
           [state |-> c.state, date |-> c.date, division |-> c.division,
            category_name |-> Coalesce(m[i].desc_en, <<"Overall">>),
            index_value |-> c.index]]

\* The rows one raw observation yields in the LEFT JOIN to 2-digit categories.
JoinedRows(c, cats) ==
    LET m == SelectSeq(cats, LAMBDA cat : cat.division = c.division /\ cat.digits = 2)
        row(desc) == [state |-> c.state, date |-> c.date, division |-> c.division,
                      category_name |-> Coalesce(desc, <<"Overall">>),
                      index_value |-> c.index]
    IN  IF m = <<>> THEN <<row(NULL)>>
        ELSE [i \in 1..Len(m) |-> row(m[i].desc_en)]

CpiMonthlyOrder(a, b) ==
    \/ a.date < b.date
    \/ /\ a.date = b.date
       /\ \/ Ord(StateNames, a.state) < Ord(StateNames, b.state)
          \/ /\ a.state = b.state
             /\ Ord(DivisionNames, a.division) < Ord(DivisionNames, b.division)

\* SELECT ... FROM raw.cpi_data c LEFT JOIN raw.categories cat ...
\* ORDER BY c.date, c.state, c.division
CpiMonthlyQuery(cpi, cats) ==
    Sorted(Flatten([i \in 1..Len(cpi) |-> JoinedRows(cpi[i], cats)]),
           CpiMonthlyOrder)

-----------------------------------------------------------------------------
(* MartTransformer queries *)

LagMonth == 1
LagYear == 12

\* Mutant of PctChange: the ratio itself, without subtracting 1.
PctChangeRatioOnly(v, prev) ==
    IF prev # NULL
    THEN IF v = NULL THEN NULL
         ELSE RMul(RDiv(v, prev), Num(100))
    ELSE NULL

\* CASE WHEN prev IS NOT NULL THEN ((v / prev) - 1) * 100 ELSE NULL END
\* (arithmetic on a NULL v yields NULL; the index values of the model are
\* positive, so the division is defined).
PctChange(v, prev) ==
    IF prev # NULL
    THEN IF v = NULL THEN NULL
         ELSE RMul(RSub(RDiv(v, prev), Num(1)), Num(100))
    ELSE NULL

StateDateOrder(a, b) ==
    \/ Ord(StateNames, a.state) < Ord(StateNames, b.state)
    \/ a.state = b.state /\ a.date < b.date

\* Mutant of LagByState: LAG without PARTITION BY state.
LagByStateNoPartition(series, i, k) ==
    IF i - k >= 1 THEN series[i - k].index_value ELSE NULL

\* LAG(index_value, k) OVER (PARTITION BY state ORDER BY date) for row i of
\* series, the rows sorted by state and date (each partition is contiguous).
LagByState(series, i, k) ==
    IF i - k >= 1 /\ series[i - k].state = series[i].state
    THEN series[i - k].index_value
    ELSE NULL

\* Mutant of InflationByStateQuery: without WHERE division = 'overall'.
InflationByStateQueryAllDivisions(stg) ==
    LET series == Sorted(stg, StateDateOrder)
    IN  [i \in 1..Len(series) |->
           LET prev_month_index == LagByState(series, i, LagMonth)
               prev_year_index == LagByState(series, i, LagYear)
           IN  [state |-> series[i].state,
                date |-> series[i].date,
                index_value |-> series[i].index_value,
                mom_change |-> PctChange(series[i].index_value, prev_month_index),
                yoy_change |-> PctChange(series[i].index_value, prev_year_index),
                inflation_rate |-> PctChange(series[i].index_value, prev_year_index)]]

\* The query of build_inflation_by_state.
InflationByStateQuery(stg) ==
    LET series == Sorted(SelectSeq(stg, LAMBDA r : r.division = "overall"),
                         StateDateOrder)
    IN  [i \in 1..Len(series) |->
           LET prev_month_index == LagByState(series, i, LagMonth)
               prev_year_index == LagByState(series, i, LagYear)
           IN  [state |-> series[i].state,
                date |-> series[i].date,
                index_value |-> series[i].index_value,
                mom_change |-> PctChange(series[i].index_value, prev_month_index),
                yoy_change |-> PctChange(series[i].index_value, prev_year_index),
                inflation_rate |-> PctChange(series[i].index_value, prev_year_index)]]

RECURSIVE SumOf(_)
SumOf(values) ==
    IF values = <<>> THEN Num(0) ELSE RAdd(Head(values), SumOf(Tail(values)))

\* AVG(x): the mean of the non-null values, NULL when there is none.
Avg(values) ==
    LET present == SelectSeq(values, LAMBDA v : v # NULL)
    IN  IF present = <<>> THEN NULL
        ELSE RDiv(SumOf(present), Num(Len(present)))

CategoryKey(r) == <<r.date, r.division, r.category_name>>

\* category_avg: GROUP BY date, division, category_name of the rows with
\* division != 'overall', one row per group in order of first appearance.
CategoryAvg(stg) ==
    LET rows == SelectSeq(stg, LAMBDA r : r.division # "overall")
        firsts == {i \in 1..Len(rows) :
                     \A j \in 1..(i - 1) : CategoryKey(rows[j]) # CategoryKey(rows[i])}
        groups == Pick(rows, firsts)
    IN  [g \in 1..Len(groups) |->
           LET members == SelectSeq(rows,
                   LAMBDA r : CategoryKey(r) = CategoryKey(groups[g]))
           IN  [date |-> groups[g].date,
                division |-> groups[g].division,
                category_name |-> groups[g].category_name,
                avg_index |-> Avg([m \in 1..Len(members) |-> members[m].index_value])]]

DivisionDateOrder(a, b) ==
    \/ Ord(DivisionNames, a.division) < Ord(DivisionNames, b.division)
    \/ a.division = b.division /\ a.date < b.date

DateDivisionOrder(a, b) ==
    \/ a.date < b.date
    \/ a.date = b.date /\ Ord(DivisionNames, a.division) < Ord(DivisionNames, b.division)

\* Mutant of LagByDivision: LAG without PARTITION BY division.
LagByDivisionNoPartition(series, i, k) ==
    IF i - k >= 1 THEN series[i - k].avg_index ELSE NULL

\* LAG(avg_index, k) OVER (PARTITION BY division ORDER BY date)
LagByDivision(series, i, k) ==
    IF i - k >= 1 /\ series[i - k].division = series[i].division
    THEN series[i - k].avg_index
    ELSE NULL

\* The query of build_inflation_by_category.
InflationByCategoryQuery(stg) ==
    LET series == Sorted(CategoryAvg(stg), DivisionDateOrder)
        with_lag == [i \in 1..Len(series) |->
            [date |-> series[i].date,
             division |-> series[i].division,
             category_name |-> series[i].category_name,
             avg_index |-> series[i].avg_index,
             mom_change |-> PctChange(series[i].avg_index,
                                      LagByDivision(series, i, LagMonth)),
             yoy_change |-> PctChange(series[i].avg_index,
                                      LagByDivision(series, i, LagYear))]]
    IN  Sorted(with_lag, DateDivisionOrder)

\* MAX / MIN over the non-null values of a set, NULL when there is none.
MaxOf(values) ==
    LET present == values \ {NULL}
    IN  IF present = {} THEN NULL
        ELSE CHOOSE x \in present : \A y \in present : ~RLess(x, y)

\* Mutant of MinOf: the greatest value instead of the least.
MinOfGreatest(values) == MaxOf(values)

MinOf(values) ==
    LET present == values \ {NULL}
    IN  IF present = {} THEN NULL
        ELSE CHOOSE x \in present : \A y \in present : ~RLess(y, x)

\* pivoted: one row per (state, date) of the rows at the latest date.
Pivoted(stg) ==
    LET max_date == CHOOSE d \in {stg[i].date : i \in 1..Len(stg)} :
                        \A i \in 1..Len(stg) : stg[i].date <= d
        latest_data == SelectSeq(stg, LAMBDA r : r.date = max_date)
        firsts == {i \in 1..Len(latest_data) :
                     \A j \in 1..(i - 1) : latest_data[j].state # latest_data[i].state}
        groups == Sorted(Pick(latest_data, firsts), StateDateOrder)
        cpi(state, division) ==
            MaxOf({latest_data[i].index_value : i \in
                     {j \in 1..Len(latest_data) :
                        /\ latest_data[j].state = state
                        /\ latest_data[j].division = division}})
    IN  IF stg = <<>> THEN <<>>
        ELSE [g \in 1..Len(groups) |->
               [state |-> groups[g].state,
                latest_date |-> groups[g].date,
                overall_cpi |-> cpi(groups[g].state, "overall"),
                food_cpi |-> cpi(groups[g].state, "01"),
                housing_cpi |-> cpi(groups[g].state, "04"),
                transport_cpi |-> cpi(groups[g].state, "07")]]

\* RANK() OVER (ORDER BY overall_cpi DESC): one more than the number of rows
\* that sort strictly before the row.
RankOverall(rows, i) ==
    1 + Cardinality({j \in 1..Len(rows) :
                       DescBefore(rows[j].overall_cpi, rows[i].overall_cpi)})

\* Mutant of JoinRegion: an inner join, states without region are dropped.
JoinRegionInner(p, states) ==
    LET m == SelectSeq(states, LAMBDA s : s.state_name = p.state)
    IN  [i \in 1..Len(m) |-> [p |-> p, region |-> m[i].region]]

\* pivoted p LEFT JOIN staging.states s ON p.state = s.state_name
JoinRegion(p, states) ==
    LET m == SelectSeq(states, LAMBDA s : s.state_name = p.state)
    IN  IF m = <<>> THEN <<[p |-> p, region |-> NULL]>>
        ELSE [i \in 1..Len(m) |-> [p |-> p, region |-> m[i].region]]

OverallDescOrder(a, b) == DescBefore(a.overall_cpi, b.overall_cpi)

\* The query of build_state_comparison.
StateComparisonQuery(stg, states) ==
    LET pivoted == Pivoted(stg)
        joined == Flatten([i \in 1..Len(pivoted) |-> JoinRegion(pivoted[i], states)])
        flat == [i \in 1..Len(joined) |-> joined[i].p]
        cheapest == MinOf({flat[i].overall_cpi : i \in 1..Len(flat)})
        with_comparison == [i \in 1..Len(joined) |->
            [state |-> flat[i].state,
             latest_date |-> flat[i].latest_date,
             overall_cpi |-> flat[i].overall_cpi,
             food_cpi |-> flat[i].food_cpi,
             housing_cpi |-> flat[i].housing_cpi,
             transport_cpi |-> flat[i].transport_cpi,
             rank_overall |-> RankOverall(flat, i),
             region |-> joined[i].region,
             pct_vs_cheapest |-> PctChange(flat[i].overall_cpi, cheapest)]]
    IN  Sorted(with_comparison, OverallDescOrder)

-----------------------------------------------------------------------------
(* Inputs *)

MaxMonths == 13      \* longest gapless monthly series of one state
GapMonths == 3       \* months over which series with gaps are enumerated
MaxDates == 2        \* months in the panels the pipeline runs extract
MaxRuns == 2         \* pipeline runs of run_full_pipeline.main in a row
MaxFaults == 2       \* failures of the environment in one behaviour

\* The category dictionary of the remote source: three 2-digit divisions and a
\* 3-digit one; the 'overall' division has no entry.
Dictionary ==
    <<[division |-> "01", desc_en |-> <<"Food">>, desc_bm |-> <<"Makanan">>, digits |-> 2],
      [division |-> "04", desc_en |-> <<"Housing">>, desc_bm |-> <<"Perumahan">>, digits |-> 2],
      [division |-> "07", desc_en |-> <<"Transport">>, desc_bm |-> <<"Pengangkutan">>, digits |-> 2],
      [division |-> "011", desc_en |-> <<"Bread">>, desc_bm |-> <<"Roti">>, digits |-> 3]>>

\* The state dimension: state C has no region.
StateDimension ==
    <<[state_name |-> "A", region |-> <<"Central">>],
      [state_name |-> "B", region |-> <<"East">>]>>

Obs(state, date, division, index) ==
    [state |-> state, date |-> date, division |-> division, index |-> index]

\* The members of a set of months in increasing order.
Ascending(dates) ==
    [p \in 1..Cardinality(dates) |->
       CHOOSE d \in dates : Cardinality({e \in dates : e < d}) = p - 1]

\* One observation per month of dates, as the remote file lists them.
Series(state, division, dates, index(_)) ==
    LET months == Ascending(dates)
    IN  [p \in 1..Len(months) |-> Obs(state, months[p], division, index(months[p]))]

\* Index values of a series that repeats a three-month pattern and drifts up
\* by one point a quarter.
Patterns == {<<100, 102, 101>>, <<100, 100, 100>>, <<102, 101, 100>>}
SeriesValue(pattern, date) == pattern[((date - 1) % 3) + 1] + ((date - 1) \div 3)

DateSets == {1..n : n \in 0..MaxMonths} \cup SUBSET (1..GapMonths)

\* Two states with 'overall' series over dates_a and dates_b (state B fifty
\* points above state A), a '01' observation in the first months, and a null
\* index for state A at month null_at (0: none).
LagInput(dates_a, dates_b, pattern, null_at) ==
    Series("A", "overall", dates_a,
           LAMBDA d : IF d = null_at THEN NULL ELSE Num(SeriesValue(pattern, d)))
    \o Series("B", "overall", dates_b, LAMBDA d : Num(SeriesValue(pattern, d) + 50))
    \o Series("A", "01", dates_a \cap (1..GapMonths),
              LAMBDA d : Num(SeriesValue(pattern, d) + 7))

\* What a state contributes to the latest month of a snapshot: nothing, only a
\* '01' observation (so that its overall_cpi is NULL), or an overall index.
SnapshotChoices == {"absent", "no_overall", "100", "110", "120"}
SnapshotValue(choice) ==
    CASE choice = "100" -> 100 [] choice = "110" -> 110 [] choice = "120" -> 120

SnapshotRows(state, choice) ==
    <<Obs(state, 1, "overall", Num(105))>>
    \o (IF choice = "absent" THEN <<>> ELSE <<Obs(state, 2, "01", Num(90))>>)
    \o (IF choice \in {"absent", "no_overall"} THEN <<>>
        ELSE <<Obs(state, 2, "overall", Num(SnapshotValue(choice)))>>)

SnapshotInput(choice) ==
    Flatten([i \in 1..Len(StateNames) |-> SnapshotRows(StateNames[i], choice[StateNames[i]])])

\* State B is absent, has a short series or has a long one.
OtherDateSets == {{}, 1..GapMonths, 1..MaxMonths}

\* Division '01' observed in two states (state B eleven points above state A,
\* state A with a null index at month null_at), division '04' in state A's
\* first months, and one 'overall' observation.
CategoryInput(dates_a, dates_b, null_at) ==
    Series("A", "01", dates_a,
           LAMBDA d : IF d = null_at THEN NULL
                      ELSE Num(SeriesValue(<<100, 102, 101>>, d)))
    \o Series("B", "01", dates_b, LAMBDA d : Num(SeriesValue(<<100, 102, 101>>, d) + 11))
    \o Series("A", "04", dates_a \cap (1..GapMonths),
              LAMBDA d : Num(SeriesValue(<<102, 101, 100>>, d) + 7))
    \o Series("A", "overall", dates_a \cap {1}, LAMBDA d : Num(100))

CategoryDateSets == {1..MaxMonths, 1..GapMonths, {1, GapMonths}}

MartInputs ==
    {LagInput(da, db, p, z) : da \in DateSets, db \in OtherDateSets, p \in Patterns,
                              z \in 0..GapMonths}
    \cup {SnapshotInput(c) : c \in [Range(StateNames) -> SnapshotChoices]}
    \cup {CategoryInput(da, db, z) : da \in CategoryDateSets, db \in OtherDateSets,
                                     z \in 0..1}

\* A gapless panel of two states, two divisions and n months; variant shifts
\* the index values.
PanelValue(state, division, date, variant) ==
    Num(100 + 10 * Ord(StateNames, state) + date * (1 + variant)
        + (IF division = "01" THEN 5 ELSE 0))

Panel(n, variant) ==
    Series("A", "overall", 1..n, LAMBDA d : PanelValue("A", "overall", d, variant))
    \o Series("A", "01", 1..n, LAMBDA d : PanelValue("A", "01", d, variant))
    \o Series("B", "overall", 1..n, LAMBDA d : PanelValue("B", "overall", d, variant))
    \o Series("B", "01", 1..n, LAMBDA d : PanelValue("B", "01", d, variant))

-----------------------------------------------------------------------------
(* State shared by the specifications *)

Tasks == {"extract_cpi_data", "extract_categories", "load_to_database",
          "transform_staging", "transform_mart", "upload_to_s3"}

RequiredColumns == {"state", "date", "division", "index"}

\* The warehouse tables, for comparing the state around an operation.
Warehouse ==
    [raw_cpi_data |-> raw_cpi_data,
     raw_categories |-> raw_categories,
     load_metadata |-> load_metadata,
     staging_categories |-> staging_categories,
     staging_cpi_monthly |-> staging_cpi_monthly,
     mart_inflation_by_state |-> mart_inflation_by_state,
     mart_inflation_by_category |-> mart_inflation_by_category,
     mart_state_comparison |-> mart_state_comparison]

\* Nothing has run yet in the current pipeline run.
RunStart ==
    /\ exit_code = NULL
    /\ calls = 0
    /\ last_call = NULL
    /\ last_op = "none"
    /\ staging_steps = <<>>
    /\ staging_result = "not_called"
    /\ mart_steps = <<>>
    /\ mart_result = "not_called"
    /\ failed_stages = {}
    /\ backup_results = NULL
    /\ first_run_marts = NULL
    /\ task_state = [t \in Tasks |-> "none"]
    /\ tries = [t \in Tasks |-> 0]
    /\ extracted = NULL
    /\ validation = NULL

-----------------------------------------------------------------------------
(* MartTransformer *)

MartOrder == <<"inflation_by_state", "inflation_by_category", "state_comparison">>

\* df.to_sql(..., if_exists='replace') either replaces the table by the rows
\* of the query, or the derivation raises: in the query, leaving the table as
\* it was, or in the write, which (depending on whether the storage client
\* wraps DROP/CREATE/INSERT in one transaction) leaves the table as it was or
\* recreated without rows.
BuildOutcomes == {"ok", "failed_unchanged", "failed_dropped"}

\* Mutant of Replaced: the write adds the rows to those the table has.
ReplacedAppends(rows, old, outcome) ==
    CASE outcome = "ok" -> old \o rows
      [] outcome = "failed_unchanged" -> old
      [] outcome = "failed_dropped" -> <<>>

\* Mutant of Replaced: a write that reports success leaves the table as it was.
ReplacedKeepsOld(rows, old, outcome) ==
    CASE outcome = "ok" -> old
      [] outcome = "failed_unchanged" -> old
      [] outcome = "failed_dropped" -> <<>>

Replaced(rows, old, outcome) ==
    CASE outcome = "ok" -> rows
      [] outcome = "failed_unchanged" -> old
      [] outcome = "failed_dropped" -> <<>>

\* The three build_* methods called on their own.
BuildInflationByState ==
    /\ runner = "mart"
    /\ "inflation_by_state" \notin Range(mart_steps)
    /\ LET df == InflationByStateQuery(staging_cpi_monthly)
       IN  \E outcome \in BuildOutcomes :
            /\ mart_inflation_by_state' = Replaced(df, mart_inflation_by_state, outcome)
            /\ mart_steps' = IF outcome = "ok"
                             THEN Append(mart_steps, "inflation_by_state")
                             ELSE mart_steps
    /\ UNCHANGED <<extracted, upstream_cpi, upstream_columns, upstream_categories, file_cpi,
                   file_categories, raw_cpi_data, raw_categories, load_metadata,
                   staging_categories, staging_cpi_monthly, staging_states,
                   mart_inflation_by_category, mart_state_comparison, s3_objects,
                   runner, pc, task_state, tries, exit_code, run, calls,
                   last_call, last_op, staging_steps, staging_result, validation,
                   mart_result, failed_stages, backup_results,
                   first_run_marts, last_staged, audit_base, pre, faults>>

BuildInflationByCategory ==
    /\ runner = "mart"
    /\ "inflation_by_category" \notin Range(mart_steps)
    /\ LET df == InflationByCategoryQuery(staging_cpi_monthly)
       IN  \E outcome \in BuildOutcomes :
            /\ mart_inflation_by_category' = Replaced(df, mart_inflation_by_category, outcome)
            /\ mart_steps' = IF outcome = "ok"
                             THEN Append(mart_steps, "inflation_by_category")
                             ELSE mart_steps
    /\ UNCHANGED <<extracted, upstream_cpi, upstream_columns, upstream_categories, file_cpi,
                   file_categories, raw_cpi_data, raw_categories, load_metadata,
                   staging_categories, staging_cpi_monthly, staging_states,
                   mart_inflation_by_state, mart_state_comparison, s3_objects,
                   runner, pc, task_state, tries, exit_code, run, calls,
                   last_call, last_op, staging_steps, staging_result, validation,
                   mart_result, failed_stages, backup_results,
                   first_run_marts, last_staged, audit_base, pre, faults>>

BuildStateComparison ==
    /\ runner = "mart"
    /\ "state_comparison" \notin Range(mart_steps)
    /\ LET df == StateComparisonQuery(staging_cpi_monthly, staging_states)
       IN  \E outcome \in BuildOutcomes :
            /\ mart_state_comparison' = Replaced(df, mart_state_comparison, outcome)
            /\ mart_steps' = IF outcome = "ok"
                             THEN Append(mart_steps, "state_comparison")
                             ELSE mart_steps
    /\ UNCHANGED <<extracted, upstream_cpi, upstream_columns, upstream_categories, file_cpi,
                   file_categories, raw_cpi_data, raw_categories, load_metadata,
                   staging_categories, staging_cpi_monthly, staging_states,
                   mart_inflation_by_state, mart_inflation_by_category, s3_objects,
                   runner, pc, task_state, tries, exit_code, run, calls,
                   last_call, last_op, staging_steps, staging_result, validation,
                   mart_result, failed_stages, backup_results,
                   first_run_marts, last_staged, audit_base, pre, faults>>

\* The mart derivations applied to staging tables drawn from bounded inputs:
\* the warehouse after a load and a staging transformation of the input.
InitMart ==
    /\ \E input \in MartInputs :
        /\ upstream_cpi = input
        /\ raw_cpi_data = input
        /\ staging_cpi_monthly = CpiMonthlyQuery(input, Dictionary)
    /\ upstream_columns = RequiredColumns
    /\ upstream_categories = Dictionary
    /\ file_cpi = NULL
    /\ file_categories = NULL
    /\ raw_categories = Dictionary
    /\ load_metadata = <<>>
    /\ staging_categories = CategoriesQuery(Dictionary)
    /\ staging_states = StateDimension
    /\ mart_inflation_by_state = <<>>
    /\ mart_inflation_by_category = <<>>
    /\ mart_state_comparison = <<>>
    /\ s3_objects = {}
    /\ runner = "mart"
    /\ pc = "idle"
    /\ run = 1
    /\ last_staged = staging_cpi_monthly
    /\ audit_base = 0
    /\ pre = Warehouse
    /\ faults = 0
    /\ RunStart

NextMart ==
    \/ BuildInflationByState
    \/ BuildInflationByCategory
    \/ BuildStateComparison

SpecMart == InitMart /\ [][NextMart]_vars

-----------------------------------------------------------------------------
(* PostgreSQLLoader *)

\* Mutant of LogLoad: only successful loads are logged.
LogLoadSuccessOnly(metadata, table_name, records, status, error, audit_ok) ==
    IF audit_ok /\ status = "SUCCESS"
    THEN Append(metadata, [table_name |-> table_name, records_loaded |-> records,
                           load_status |-> status, error_message |-> error])
    ELSE metadata

\* _log_load: INSERT INTO raw.load_metadata, unless the insert fails
\* (audit_ok false), which is logged as a warning and otherwise ignored.
LogLoad(metadata, table_name, records, status, error, audit_ok) ==
    IF audit_ok
    THEN Append(metadata, [table_name |-> table_name, records_loaded |-> records,
                           load_status |-> status, error_message |-> error])
    ELSE metadata

\* Mutant of LogLoadRaises: _log_load without its try/except.
LogLoadPropagates(audit_ok) == ~audit_ok

\* Whether _log_load raises: never, its except clause catches every Exception.
LogLoadRaises(audit_ok) == FALSE

\* Mutant of ToSql: rows are appended whatever if_exists says.
ToSqlAlwaysAppend(old, df, if_exists, write_ok, dropped) ==
    IF if_exists = "fail" \/ ~write_ok
    THEN [raised |-> TRUE, rows |-> old]
    ELSE [raised |-> FALSE, rows |-> old \o df]

\* Mutant of ToSql: replace merges, keeping the previous rows that are not
\* among the new ones.
ToSqlMerges(old, df, if_exists, write_ok, dropped) ==
    IF if_exists = "fail" THEN [raised |-> TRUE, rows |-> old]
    ELSE IF ~write_ok
    THEN [raised |-> TRUE,
          rows |-> IF dropped /\ if_exists = "replace" THEN <<>> ELSE old]
    ELSE [raised |-> FALSE,
          rows |-> IF if_exists = "replace"
                   THEN df \o SelectSeq(old, LAMBDA r : r \notin Range(df))
                   ELSE old \o df]

\* df.to_sql(table_name, engine, schema='raw', if_exists=if_exists) on a table
\* that exists with the rows old.  A failed replace leaves the table as it was
\* or (dropped) recreated without rows, depending on whether the storage
\* client runs DROP/CREATE/INSERT in one transaction.
ToSql(old, df, if_exists, write_ok, dropped) ==
    IF if_exists = "fail" THEN [raised |-> TRUE, rows |-> old]
    ELSE IF ~write_ok
    THEN [raised |-> TRUE,
          rows |-> IF dropped /\ if_exists = "replace" THEN <<>> ELSE old]
    ELSE [raised |-> FALSE,
          rows |-> IF if_exists = "replace" THEN df ELSE old \o df]

\* load_to_raw: the table and the audit table after the call, whether the call
\* returned or raised, the value returned or the error raised, and the order
\* of its steps.
LoadToRaw(old, metadata, df, table_name, if_exists, write_ok, dropped, audit_ok) ==
    LET sql == ToSql(old, df, if_exists, write_ok, dropped)
        logged_ok == LogLoad(metadata, table_name, Len(df), "SUCCESS", NULL, audit_ok)
        \* the exception the except clause handles, if any
        e == IF sql.raised THEN "write_error"
             ELSE IF LogLoadRaises(audit_ok) THEN "audit_error"
             ELSE "none"
        logged_failed == LogLoad(IF sql.raised THEN metadata ELSE logged_ok,
                                 table_name, 0, "FAILED", <<e>>, audit_ok)
    IN  IF e = "none"
        THEN [rows |-> sql.rows, metadata |-> logged_ok,
              table_name |-> table_name, records |-> Len(df),
              write |-> "ok", audit_ok |-> audit_ok,
              outcome |-> "returned", value |-> <<Len(df)>>, error |-> "none",
              trace |-> <<"to_sql", "_log_load", "return">>]
        ELSE [rows |-> sql.rows, metadata |-> logged_failed,
              table_name |-> table_name, records |-> Len(df),
              write |-> IF sql.raised THEN "failed" ELSE "ok",
              audit_ok |-> audit_ok,
              outcome |-> "raised", value |-> NULL,
              error |-> IF LogLoadRaises(audit_ok) THEN "audit_error" ELSE e,
              trace |-> IF LogLoadRaises(audit_ok)
                        THEN <<"to_sql", "_log_load">>
                        ELSE <<"to_sql", "_log_load", "raise">>]

\* What the rest of the model observes of a call.
CallRecord(c) ==
    [table_name |-> c.table_name, records |-> c.records, write |-> c.write,
     audit_ok |-> c.audit_ok, outcome |-> c.outcome, value |-> c.value,
     error |-> c.error, trace |-> c.trace]

-----------------------------------------------------------------------------
(* StagingTransformer.run_all and MartTransformer.run_all *)

StagingOrder == <<"transform_categories", "transform_cpi_monthly", "validate_staging">>

\* The steps of run_all that completed when the step fail_at raised.
StepsBefore(order, fail_at) ==
    IF fail_at = "none" THEN order
    ELSE SubSeq(order, 1, Ord(order, fail_at) - 1)

\* Mutant of TableAfter: a failing step does not stop the later ones.
TableAfterContinue(order, step, fail_at, rows, old, dropped) ==
    IF step # fail_at THEN rows
    ELSE IF dropped THEN <<>> ELSE old

\* The table a step of run_all replaces, after run_all: replaced if the step
\* completed, untouched if an earlier step raised, and as the failed write left
\* it if the step itself raised.
TableAfter(order, step, fail_at, rows, old, dropped) ==
    IF step \in Range(StepsBefore(order, fail_at))
    THEN Replaced(rows, old, "ok")
    ELSE IF step = fail_at
         THEN Replaced(rows, old, IF dropped THEN "failed_dropped" ELSE "failed_unchanged")
         ELSE old

\* Mutant of RunAllResult: run_all without its try/except.
RunAllResultRaises(fail_at) == IF fail_at = "none" THEN "True" ELSE "raised"

\* What run_all returns: True, or False when a step raised (the exception is
\* logged and swallowed).
RunAllResult(fail_at) == IF fail_at = "none" THEN "True" ELSE "False"

sourceVars == <<upstream_cpi, upstream_columns, upstream_categories, staging_states,
                runner, audit_base>>
fileVars == <<file_cpi, file_categories>>
rawVars == <<raw_cpi_data, raw_categories>>
stagingVars == <<staging_categories, staging_cpi_monthly, staging_steps,
                 staging_result, last_staged, validation>>
martVars == <<mart_inflation_by_state, mart_inflation_by_category,
              mart_state_comparison, mart_steps, mart_result>>
loadVars == <<load_metadata, calls, last_call>>
backupVars == <<s3_objects, backup_results>>
dagVars == <<task_state, tries>>

\* Rows of staging.cpi_monthly counted by COUNT(*) FILTER (WHERE index_value IS
\* NULL).
NullIndexCount(stg) == Len(SelectSeq(stg, LAMBDA r : r.index_value = NULL))

\* Mutant of Validation: a finding makes validate_staging raise.
ValidationFatal(raw, stg, query_ok) ==
    LET count_warning == Len(raw) # Len(stg)
        null_warning == NullIndexCount(stg) > 0
    IN  [raised |-> ~query_ok \/ count_warning \/ null_warning,
         returned |-> IF query_ok /\ ~count_warning /\ ~null_warning
                      THEN <<"True">> ELSE NULL,
         count_warning |-> query_ok /\ count_warning,
         null_warning |-> query_ok /\ null_warning]

\* validate_staging on raw.cpi_data and staging.cpi_monthly: whether it raised
\* (only when one of its queries fails), what it returned, and the warnings it
\* logged.  The state and date columns hold no nulls in the rows of this
\* model, so their counts are 0 and null_warning follows index_value.
Validation(raw, stg, query_ok) ==
    IF ~query_ok
    THEN [raised |-> TRUE, returned |-> NULL,
          count_warning |-> FALSE, null_warning |-> FALSE]
    ELSE [raised |-> FALSE, returned |-> <<"True">>,
          count_warning |-> Len(raw) # Len(stg),
          null_warning |-> 0 + 0 + NullIndexCount(stg) > 0]

\* run_all: the three steps in order inside one try block; fail_at is the step
\* in which the warehouse fails, if any.
StagingRunAll(fail_at, dropped) ==
    /\ staging_categories' =
          TableAfter(StagingOrder, "transform_categories", fail_at,
                     CategoriesQuery(raw_categories), staging_categories, dropped)
    /\ staging_cpi_monthly' =
          TableAfter(StagingOrder, "transform_cpi_monthly", fail_at,
                     CpiMonthlyQuery(raw_cpi_data, raw_categories),
                     staging_cpi_monthly, dropped)
    /\ validation' =
          IF fail_at \in {"none", "validate_staging"}
          THEN <<Validation(raw_cpi_data, staging_cpi_monthly', fail_at = "none")>>
          ELSE validation
    /\ LET \* the step that raised, if any
           stop == IF fail_at = "none" /\ validation'[1].raised
                   THEN "validate_staging" ELSE fail_at
       IN  /\ staging_steps' = StepsBefore(StagingOrder, stop)
           /\ staging_result' = RunAllResult(stop)
           /\ last_staged' = IF stop = "none" THEN staging_cpi_monthly' ELSE last_staged

MartRunAll(fail_at, dropped) ==
    /\ mart_inflation_by_state' =
          TableAfter(MartOrder, "inflation_by_state", fail_at,
                     InflationByStateQuery(staging_cpi_monthly),
                     mart_inflation_by_state, dropped)
    /\ mart_inflation_by_category' =
          TableAfter(MartOrder, "inflation_by_category", fail_at,
                     InflationByCategoryQuery(staging_cpi_monthly),
                     mart_inflation_by_category, dropped)
    /\ mart_state_comparison' =
          TableAfter(MartOrder, "state_comparison", fail_at,
                     StateComparisonQuery(staging_cpi_monthly, staging_states),
                     mart_state_comparison, dropped)
    /\ mart_steps' = StepsBefore(MartOrder, fail_at)
    /\ mart_result' = RunAllResult(fail_at)

FailPoints(order) == {"none"} \cup Range(order)

-----------------------------------------------------------------------------
(* CPIExtractor and DOSMClient *)

\* Whether a required column of the dataset holds a null.
HasNulls(df) == \E i \in 1..Len(df) : df[i].index = NULL

\* Mutant of ExtractFull: the dataset is saved before it is validated.
ExtractFullSavesFirst(fetch_ok) ==
    IF ~fetch_ok \/ "date" \notin upstream_columns
    THEN [raised |-> TRUE, file |-> file_cpi, returned |-> NULL, warned |-> FALSE]
    ELSE IF RequiredColumns \ upstream_columns # {}
    THEN [raised |-> TRUE, file |-> <<upstream_cpi>>, returned |-> NULL,
          warned |-> FALSE]
    ELSE [raised |-> FALSE, file |-> <<upstream_cpi>>,
          returned |-> <<upstream_cpi>>, warned |-> HasNulls(upstream_cpi)]

\* extract_full(save_path): get_cpi_data fetches the dataset and parses its
\* date column (raising if the fetch fails or there is no such column),
\* _validate_data raises if a required column is missing and warns about
\* nulls, and only then the dataset is saved and returned.
ExtractFull(fetch_ok) ==
    IF ~fetch_ok \/ "date" \notin upstream_columns
    THEN [raised |-> TRUE, file |-> file_cpi, returned |-> NULL, warned |-> FALSE]
    ELSE IF RequiredColumns \ upstream_columns # {}
    THEN [raised |-> TRUE, file |-> file_cpi, returned |-> NULL, warned |-> FALSE]
    ELSE [raised |-> FALSE, file |-> <<upstream_cpi>>,
          returned |-> <<upstream_cpi>>, warned |-> HasNulls(upstream_cpi)]

\* What a call of extract_full leaves to observe.
Extracted(x, fetch_ok) ==
    <<[raised |-> x.raised, returned |-> x.returned, warned |-> x.warned,
       fetch_ok |-> fetch_ok, file_before |-> file_cpi]>>

\* get_categories() followed by to_parquet.
ExtractCategories(fetch_ok) ==
    IF ~fetch_ok THEN [raised |-> TRUE, file |-> file_categories]
    ELSE [raised |-> FALSE, file |-> <<upstream_categories>>]

-----------------------------------------------------------------------------
(* S3Uploader *)

BackupFiles ==
    <<[local |-> "data/raw/cpi_latest.parquet",
       s3_key |-> "raw/cpi/date=today/cpi_data.parquet"],
      [local |-> "data/raw/categories.parquet",
       s3_key |-> "raw/categories/date=today/categories.parquet"]>>

LocalFile(path) ==
    IF path = "data/raw/cpi_latest.parquet" THEN file_cpi ELSE file_categories

\* What the storage client does with an upload: it succeeds, raises
\* ClientError (upload_file returns False), or raises another exception, which
\* upload_file does not catch.
UploadOutcomes == {"ok", "client_error", "other_error"}

\* The loop of upload_data_backup over the files, with the outcome the storage
\* client has for each.
RECURSIVE UploadEach(_, _, _)
UploadEach(files, outcome, acc) ==
    IF files = <<>> \/ acc.raised THEN acc
    ELSE LET local_path == Head(files).local
             s3_key == Head(files).s3_key
         IN  IF LocalFile(local_path) = NULL
             THEN UploadEach(Tail(files), outcome,
                             [acc EXCEPT !.failed = Append(@, local_path)])
             ELSE CASE outcome[local_path] = "ok" ->
                         UploadEach(Tail(files), outcome,
                             [acc EXCEPT !.uploaded = Append(@, s3_key),
                                         !.attempted = Append(@, local_path),
                                         !.objects = @ \cup {s3_key}])
                    [] outcome[local_path] = "client_error" ->
                         UploadEach(Tail(files), outcome,
                             [acc EXCEPT !.failed = Append(@, local_path),
                                         !.attempted = Append(@, local_path)])
                    [] outcome[local_path] = "other_error" ->
                         [acc EXCEPT !.raised = TRUE,
                                     !.attempted = Append(@, local_path)]

UploadDataBackup(outcome) ==
    UploadEach(BackupFiles, outcome,
               [uploaded |-> <<>>, failed |-> <<>>, attempted |-> <<>>,
                objects |-> s3_objects, raised |-> FALSE])

UploadChoices == [{BackupFiles[i].local : i \in 1..Len(BackupFiles)} -> UploadOutcomes]

\* What a call of upload_data_backup leaves to observe: whether it raised, the
\* results it returned (none when it raised), and the files it handed to the
\* storage client.
BackupResults(b) ==
    <<[raised |-> b.raised,
       results |-> IF b.raised THEN NULL
                   ELSE <<[date |-> "today", uploaded |-> b.uploaded,
                           failed |-> b.failed]>>,
       attempted |-> b.attempted]>>

-----------------------------------------------------------------------------
(* run_full_pipeline.main *)

\* The environment fails n more times, within the bound.
Fault(n) == faults + n <= MaxFaults /\ faults' = faults + n

Cost(ok) == IF ok THEN 0 ELSE 1

Marts ==
    [inflation_by_state |-> mart_inflation_by_state,
     inflation_by_category |-> mart_inflation_by_category,
     state_comparison |-> mart_state_comparison]

Stage(name, failed) ==
    failed_stages' = IF failed THEN failed_stages \cup {name} ELSE failed_stages \ {name}

\* main returns code.
Return(code) ==
    /\ pc' = "done"
    /\ exit_code' = <<code>>

Observed(op) == last_op' = op /\ pre' = Warehouse

\* Step 1: extract_full, then get_categories and to_parquet.
MainExtract ==
    /\ runner = "script" /\ pc = "extract"
    /\ \E fetch_ok \in BOOLEAN, categories_ok \in BOOLEAN :
         LET cpi == ExtractFull(fetch_ok)
             cat == ExtractCategories(categories_ok)
         IN  /\ file_cpi' = cpi.file
             /\ extracted' = Extracted(cpi, fetch_ok)
             /\ IF cpi.raised
                THEN /\ Fault(Cost(fetch_ok))
                     /\ file_categories' = file_categories
                     /\ Return(1)
                ELSE /\ Fault(Cost(categories_ok))
                     /\ file_categories' = cat.file
                     /\ IF cat.raised THEN Return(1)
                        ELSE pc' = "load_cpi" /\ exit_code' = exit_code
             /\ Stage("extract", cpi.raised \/ cat.raised)
    /\ Observed("extract")
    /\ UNCHANGED <<sourceVars, rawVars, stagingVars, martVars, loadVars,
                   backupVars, dagVars, run, first_run_marts>>

\* The outcomes a call of load_to_raw can have.
LoadCalls(df, table_name, old) ==
    {LoadToRaw(old, load_metadata, df, table_name, "replace", write_ok, dropped, audit_ok) :
        write_ok \in BOOLEAN, dropped \in BOOLEAN, audit_ok \in BOOLEAN}

\* Step 2, first call: loader.load_to_raw(df_cpi, 'cpi_data', if_exists='replace').
MainLoadCpi ==
    /\ runner = "script" /\ pc = "load_cpi"
    /\ \E c \in LoadCalls(file_cpi[1], "cpi_data", raw_cpi_data) :
         /\ Fault(Cost(c.write = "ok") + Cost(c.audit_ok))
         /\ raw_cpi_data' = c.rows
         /\ load_metadata' = c.metadata
         /\ last_call' = <<CallRecord(c)>>
         /\ Stage("load_to_database", c.outcome = "raised")
         /\ IF c.outcome = "raised" THEN Return(1)
            ELSE pc' = "load_categories" /\ exit_code' = exit_code
    /\ calls' = calls + 1
    /\ Observed("load_to_raw")
    /\ UNCHANGED <<extracted, sourceVars, fileVars, raw_categories, stagingVars, martVars,
                   backupVars, dagVars, run, first_run_marts>>

\* Step 2, second call: loader.load_to_raw(df_categories, 'categories', if_exists='replace').
MainLoadCategories ==
    /\ runner = "script" /\ pc = "load_categories"
    /\ \E c \in LoadCalls(file_categories[1], "categories", raw_categories) :
         /\ Fault(Cost(c.write = "ok") + Cost(c.audit_ok))
         /\ raw_categories' = c.rows
         /\ load_metadata' = c.metadata
         /\ last_call' = <<CallRecord(c)>>
         /\ Stage("load_to_database", c.outcome = "raised")
         /\ IF c.outcome = "raised" THEN Return(1)
            ELSE pc' = "staging" /\ exit_code' = exit_code
    /\ calls' = calls + 1
    /\ Observed("load_to_raw")
    /\ UNCHANGED <<extracted, sourceVars, fileVars, raw_cpi_data, stagingVars, martVars,
                   backupVars, dagVars, run, first_run_marts>>

\* Step 3: staging.run_all(); its return value is not looked at.
MainStaging ==
    /\ runner = "script" /\ pc = "staging"
    /\ \E fail_at \in FailPoints(StagingOrder), dropped \in BOOLEAN :
         /\ Fault(Cost(fail_at = "none"))
         /\ StagingRunAll(fail_at, dropped)
         /\ Stage("transform_staging", fail_at # "none")
         /\ IF RunAllResult(fail_at) = "raised" THEN Return(1)
            ELSE pc' = "mart" /\ exit_code' = exit_code
    /\ Observed("staging.run_all")
    /\ UNCHANGED <<extracted, sourceVars, fileVars, rawVars, martVars, loadVars,
                   backupVars, dagVars, run, first_run_marts>>

\* Step 4: mart.run_all(); its return value is not looked at.
MainMart ==
    /\ runner = "script" /\ pc = "mart"
    /\ \E fail_at \in FailPoints(MartOrder), dropped \in BOOLEAN :
         /\ Fault(Cost(fail_at = "none"))
         /\ MartRunAll(fail_at, dropped)
         /\ Stage("transform_mart", fail_at # "none")
         /\ IF RunAllResult(fail_at) = "raised" THEN Return(1)
            ELSE pc' = "upload" /\ exit_code' = exit_code
    /\ Observed("mart.run_all")
    /\ UNCHANGED <<extracted, sourceVars, fileVars, rawVars, staging_categories,
                   staging_cpi_monthly, staging_steps, staging_result, last_staged,
                   validation,
                   loadVars, backupVars, dagVars, run, first_run_marts>>

Faulty(outcome) == Cardinality({f \in DOMAIN outcome : outcome[f] # "ok"})

\* Step 5: uploader.upload_data_backup(), then return 0.
MainUpload ==
    /\ runner = "script" /\ pc = "upload"
    /\ \E outcome \in UploadChoices :
         LET b == UploadDataBackup(outcome)
         IN  /\ Fault(Faulty(outcome))
             /\ s3_objects' = b.objects
             /\ backup_results' = BackupResults(b)
             /\ Stage("upload_to_s3", b.raised)
             /\ Return(IF b.raised THEN 1 ELSE 0)
             /\ first_run_marts' =
                   IF first_run_marts = NULL /\ failed_stages' = {}
                   THEN <<[run |-> run, marts |-> Marts]>> ELSE first_run_marts
    /\ Observed("upload_data_backup")
    /\ UNCHANGED <<extracted, sourceVars, fileVars, rawVars, stagingVars, martVars, loadVars,
                   dagVars, run>>

\* The script is started again after it exited.
StartRun ==
    /\ runner = "script" /\ pc = "done"
    /\ run < MaxRuns
    /\ run' = run + 1
    /\ pc' = "extract"
    /\ exit_code' = NULL
    /\ last_call' = NULL
    /\ staging_steps' = <<>>
    /\ staging_result' = "not_called"
    /\ validation' = NULL
    /\ mart_steps' = <<>>
    /\ mart_result' = "not_called"
    /\ failed_stages' = {}
    /\ backup_results' = NULL
    /\ Observed("none")
    /\ UNCHANGED <<extracted, sourceVars, fileVars, rawVars, staging_categories,
                   staging_cpi_monthly, last_staged, mart_inflation_by_state,
                   mart_inflation_by_category, mart_state_comparison,
                   load_metadata, calls, s3_objects, dagVars, first_run_marts,
                   faults>>

-----------------------------------------------------------------------------
(* The Airflow DAG cpi_data_pipeline *)

Retries == 2

\* [task_extract_cpi, task_extract_categories] >> task_load_db >> task_staging
\*     >> task_mart >> task_s3
UpstreamTasks(t) ==
    CASE t = "extract_cpi_data" -> {}
      [] t = "extract_categories" -> {}
      [] t = "load_to_database" -> {"extract_cpi_data", "extract_categories"}
      [] t = "transform_staging" -> {"load_to_database"}
      [] t = "transform_mart" -> {"transform_staging"}
      [] t = "upload_to_s3" -> {"transform_mart"}

\* The scheduler may start (or start again) task t.
Runnable(t) ==
    /\ runner = "dag" /\ pc = "idle"
    /\ task_state[t] \in {"none", "up_for_retry"}
    /\ \A u \in UpstreamTasks(t) : task_state[u] = "success"

\* The callable of task t returned or raised: the task succeeds, is retried
\* while it has retries left, or fails.  failed: the stage did not do its work.
TaskFinish(t, raised, failed) ==
    /\ task_state' = [task_state EXCEPT ![t] =
                         IF ~raised THEN "success"
                         ELSE IF tries[t] >= Retries THEN "failed"
                         ELSE "up_for_retry"]
    /\ tries' = [tries EXCEPT ![t] = @ + 1]
    /\ Stage(t, failed)

TaskExtractCpi ==
    /\ Runnable("extract_cpi_data")
    /\ \E fetch_ok \in BOOLEAN :
         LET cpi == ExtractFull(fetch_ok)
         IN  /\ Fault(Cost(fetch_ok))
             /\ file_cpi' = cpi.file
             /\ extracted' = Extracted(cpi, fetch_ok)
             /\ TaskFinish("extract_cpi_data", cpi.raised, cpi.raised)
    /\ Observed("extract")
    /\ UNCHANGED <<sourceVars, file_categories, rawVars, stagingVars, martVars,
                   loadVars, backupVars, pc, exit_code, run, first_run_marts>>

TaskExtractCategories ==
    /\ Runnable("extract_categories")
    /\ \E fetch_ok \in BOOLEAN :
         LET cat == ExtractCategories(fetch_ok)
         IN  /\ Fault(Cost(fetch_ok))
             /\ file_categories' = cat.file
             /\ TaskFinish("extract_categories", cat.raised, cat.raised)
    /\ Observed("extract")
    /\ UNCHANGED <<extracted, sourceVars, file_cpi, rawVars, stagingVars, martVars,
                   loadVars, backupVars, pc, exit_code, run, first_run_marts>>

\* load_to_database up to the end of its first load_to_raw call.
TaskLoadCpi ==
    /\ Runnable("load_to_database")
    /\ \E c \in LoadCalls(file_cpi[1], "cpi_data", raw_cpi_data) :
         /\ Fault(Cost(c.write = "ok") + Cost(c.audit_ok))
         /\ raw_cpi_data' = c.rows
         /\ load_metadata' = c.metadata
         /\ last_call' = <<CallRecord(c)>>
         /\ IF c.outcome = "raised"
            THEN /\ TaskFinish("load_to_database", TRUE, TRUE)
                 /\ pc' = pc
            ELSE /\ task_state' = [task_state EXCEPT !["load_to_database"] = "running"]
                 /\ tries' = tries
                 /\ failed_stages' = failed_stages
                 /\ pc' = "load_categories"
    /\ calls' = calls + 1
    /\ Observed("load_to_raw")
    /\ UNCHANGED <<extracted, sourceVars, fileVars, raw_categories, stagingVars, martVars,
                   backupVars, exit_code, run, first_run_marts>>

\* The rest of load_to_database: its second load_to_raw call and the return.
TaskLoadCategories ==
    /\ runner = "dag" /\ pc = "load_categories"
    /\ \E c \in LoadCalls(file_categories[1], "categories", raw_categories) :
         /\ Fault(Cost(c.write = "ok") + Cost(c.audit_ok))
         /\ raw_categories' = c.rows
         /\ load_metadata' = c.metadata
         /\ last_call' = <<CallRecord(c)>>
         /\ TaskFinish("load_to_database", c.outcome = "raised", c.outcome = "raised")
    /\ pc' = "idle"
    /\ calls' = calls + 1
    /\ Observed("load_to_raw")
    /\ UNCHANGED <<extracted, sourceVars, fileVars, raw_cpi_data, stagingVars, martVars,
                   backupVars, exit_code, run, first_run_marts>>

\* transform_staging: run_all's return value is not looked at.
TaskStaging ==
    /\ Runnable("transform_staging")
    /\ \E fail_at \in FailPoints(StagingOrder), dropped \in BOOLEAN :
         /\ Fault(Cost(fail_at = "none"))
         /\ StagingRunAll(fail_at, dropped)
         /\ TaskFinish("transform_staging", RunAllResult(fail_at) = "raised", fail_at # "none")
    /\ Observed("staging.run_all")
    /\ UNCHANGED <<extracted, sourceVars, fileVars, rawVars, martVars, loadVars,
                   backupVars, pc, exit_code, run, first_run_marts>>

\* transform_mart: run_all's return value is not looked at.
TaskMart ==
    /\ Runnable("transform_mart")
    /\ \E fail_at \in FailPoints(MartOrder), dropped \in BOOLEAN :
         /\ Fault(Cost(fail_at = "none"))
         /\ MartRunAll(fail_at, dropped)
         /\ TaskFinish("transform_mart", RunAllResult(fail_at) = "raised", fail_at # "none")
    /\ Observed("mart.run_all")
    /\ UNCHANGED <<extracted, sourceVars, fileVars, rawVars, staging_categories,
                   staging_cpi_monthly, staging_steps, staging_result, last_staged,
                   validation,
                   loadVars, backupVars, pc, exit_code, run, first_run_marts>>

TaskUpload ==
    /\ Runnable("upload_to_s3")
    /\ \E outcome \in UploadChoices :
         LET b == UploadDataBackup(outcome)
         IN  /\ Fault(Faulty(outcome))
             /\ s3_objects' = b.objects
             /\ backup_results' = BackupResults(b)
             /\ TaskFinish("upload_to_s3", b.raised, b.raised)
    /\ Observed("upload_data_backup")
    /\ UNCHANGED <<extracted, sourceVars, fileVars, rawVars, stagingVars, martVars, loadVars,
                   pc, exit_code, run, first_run_marts>>

-----------------------------------------------------------------------------
(* The pipeline *)

\* What the warehouse holds before the first run: nothing, or what a complete
\* run on an earlier vintage of the source left.
Vintages == {"none", "earlier"}

EarlierPanel == Panel(1, 0)

Init ==
    /\ \E n \in 1..MaxDates : upstream_cpi = Panel(n, 1)
    /\ upstream_columns \in {RequiredColumns, RequiredColumns \ {"index"}}
    /\ upstream_categories = Dictionary
    /\ file_cpi = NULL
    /\ file_categories = NULL
    /\ staging_states = StateDimension
    /\ \E vintage \in Vintages :
         IF vintage = "none"
         THEN /\ raw_cpi_data = <<>>
              /\ raw_categories = <<>>
              /\ load_metadata = <<>>
              /\ staging_categories = <<>>
              /\ staging_cpi_monthly = <<>>
              /\ mart_inflation_by_state = <<>>
              /\ mart_inflation_by_category = <<>>
              /\ mart_state_comparison = <<>>
         ELSE /\ raw_cpi_data = EarlierPanel
              /\ raw_categories = Dictionary
              /\ load_metadata =
                    LogLoad(LogLoad(<<>>, "cpi_data", Len(EarlierPanel), "SUCCESS", NULL, TRUE),
                            "categories", Len(Dictionary), "SUCCESS", NULL, TRUE)
              /\ staging_categories = CategoriesQuery(Dictionary)
              /\ staging_cpi_monthly = CpiMonthlyQuery(EarlierPanel, Dictionary)
              /\ mart_inflation_by_state = InflationByStateQuery(staging_cpi_monthly)
              /\ mart_inflation_by_category = InflationByCategoryQuery(staging_cpi_monthly)
              /\ mart_state_comparison =
                    StateComparisonQuery(staging_cpi_monthly, StateDimension)
    /\ s3_objects = {}
    /\ runner \in {"script", "dag"}
    /\ pc = IF runner = "script" THEN "extract" ELSE "idle"
    /\ run = 1
    /\ last_staged = staging_cpi_monthly
    /\ audit_base = Len(load_metadata)
    /\ pre = Warehouse
    /\ faults = 0
    /\ RunStart

Next ==
    \/ MainExtract
    \/ MainLoadCpi
    \/ MainLoadCategories
    \/ MainStaging
    \/ MainMart
    \/ MainUpload
    \/ StartRun
    \/ TaskExtractCpi
    \/ TaskExtractCategories
    \/ TaskLoadCpi
    \/ TaskLoadCategories
    \/ TaskStaging
    \/ TaskMart
    \/ TaskUpload

Spec == Init /\ [][Next]_vars

-----------------------------------------------------------------------------
(* Properties of the mart tables (checked under SpecMart) *)

Built(derivation) == derivation \in Range(mart_steps)

\* The 'overall' observations of staging.cpi_monthly.
OverallRows == SelectSeq(staging_cpi_monthly, LAMBDA r : r.division = "overall")

\* (v / p - 1) * 100 for non-null v and p.
Percent(v, p) == RMul(RSub(RDiv(v, p), Num(1)), Num(100))

\* The observations of row r's state that are earlier than r, and the latest
\* of them (the previous row of the state's date-ordered series).
Earlier(r) == {x \in Range(OverallRows) : x.state = r.state /\ x.date < r.date}
Previous(r) == CHOOSE x \in Earlier(r) : \A y \in Earlier(r) : y.date <= x.date

\* The observation of r's state that is k rows before r in date order.
RowsBack(r, k) ==
    CHOOSE x \in Earlier(r) :
        Cardinality({y \in Earlier(r) : y.date > x.date}) = k - 1

\* mart.inflation_by_state has exactly one row per 'overall' observation.
OneRowPerObservation ==
    /\ Len(mart_inflation_by_state) = Len(OverallRows)
    /\ \A x \in Range(OverallRows) :
         \E r \in Range(mart_inflation_by_state) :
             r.state = x.state /\ r.date = x.date /\ r.index_value = x.index_value

NoNullIndex == \A x \in Range(OverallRows) : x.index_value # NULL

\* C8 (as stated): mom_change is null iff the state has no observation at the
\* period immediately preceding d, and otherwise is
\* (index(d) / index(d-1) - 1) * 100.  Stated for series without null index
\* values.
C8_MomNullIffNoPrecedingPeriod ==
    (Built("inflation_by_state") /\ NoNullIndex) =>
        /\ OneRowPerObservation
        /\ \A r \in Range(mart_inflation_by_state) :
             LET preceding == {x \in Range(OverallRows) :
                                 x.state = r.state /\ x.date = r.date - 1}
             IN  /\ (r.mom_change = NULL) <=> (preceding = {})
                 /\ \A x \in preceding :
                      r.mom_change = Percent(r.index_value, x.index_value)

\* C8 (amended): mom_change is null iff the row is the first of its state's
\* date-ordered 'overall' series, or its index or the index of the previous
\* row of that series is null; otherwise it is
\* (index(d) / index(previous row) - 1) * 100, where the previous row is the
\* preceding period only if the series has no gap there.
C8_MomComparesPreviousRow ==
    Built("inflation_by_state") =>
        /\ OneRowPerObservation
        /\ \A r \in Range(mart_inflation_by_state) :
             IF Earlier(r) = {} \/ r.index_value = NULL
             THEN r.mom_change = NULL
             ELSE IF Previous(r).index_value = NULL
                  THEN r.mom_change = NULL
                  ELSE /\ r.mom_change # NULL
                       /\ r.mom_change =
                             Percent(r.index_value, Previous(r).index_value)

\* A series with a gap: a row whose month-over-month change was computed
\* although its state has no observation in the preceding month.
C8_Witness ==
    /\ Built("inflation_by_state")
    /\ \E r \in Range(mart_inflation_by_state) :
         /\ r.mom_change # NULL
         /\ \A x \in Range(OverallRows) :
              ~(x.state = r.state /\ x.date = r.date - 1)

\* C9 (as stated): yoy_change is null for the first 12 rows of a state's
\* date-ordered series and non-null for every later row, where it is
\* (index(d) / index 12 rows earlier in the same state - 1) * 100.
C9_YoyNullExactlyFirstTwelve ==
    Built("inflation_by_state") =>
        /\ OneRowPerObservation
        /\ \A r \in Range(mart_inflation_by_state) :
             IF Cardinality(Earlier(r)) < LagYear
             THEN r.yoy_change = NULL
             ELSE /\ r.yoy_change # NULL
                  /\ RowsBack(r, LagYear).index_value # NULL
                  /\ r.yoy_change =
                        Percent(r.index_value, RowsBack(r, LagYear).index_value)

\* C9 (amended): yoy_change is null for the first 12 rows of a state's
\* date-ordered series; for a later row it is null iff the row's index or the
\* index 12 rows earlier in the same state's series is null, and otherwise
\* equals (index(d) / index 12 rows earlier in the same state - 1) * 100.
C9_YoyComparesTwelveRowsBack ==
    Built("inflation_by_state") =>
        /\ OneRowPerObservation
        /\ \A r \in Range(mart_inflation_by_state) :
             IF Cardinality(Earlier(r)) < LagYear \/ r.index_value = NULL
             THEN r.yoy_change = NULL
             ELSE IF RowsBack(r, LagYear).index_value = NULL
                  THEN r.yoy_change = NULL
                  ELSE /\ r.yoy_change # NULL
                       /\ r.yoy_change =
                             Percent(r.index_value, RowsBack(r, LagYear).index_value)

\* Two states with more than 12 rows each: a thirteenth row of the second
\* state has a year-over-year change, and its first row has none.
C9_Witness ==
    /\ Built("inflation_by_state")
    /\ \E r \in Range(mart_inflation_by_state) :
         /\ r.state = "B"
         /\ Cardinality(Earlier(r)) = LagYear
         /\ r.yoy_change # NULL
    /\ \E a \in Range(mart_inflation_by_state) :
         a.state = "A" /\ Cardinality(Earlier(a)) = LagYear

\* overall_cpi of row q is strictly greater than that of row r.
StrictlyGreater(q, r) ==
    /\ q.overall_cpi # NULL
    /\ r.overall_cpi # NULL
    /\ RLess(r.overall_cpi, q.overall_cpi)

\* C10: rank_overall = 1 + the number of states of the snapshot with strictly
\* greater overall_cpi, so the states with the highest overall_cpi have rank 1.
\* Stated for snapshots without null index values.
C10_RankCountsGreaterStates ==
    (Built("state_comparison")
        /\ \A x \in Range(staging_cpi_monthly) : x.index_value # NULL) =>
        \A r \in Range(mart_state_comparison) :
            r.rank_overall =
                1 + Cardinality({q \in Range(mart_state_comparison) :
                                    StrictlyGreater(q, r)})

-----------------------------------------------------------------------------
(* Properties of the loader *)

AfterLoad == last_op = "load_to_raw"
Call == last_call[1]
AuditBefore == pre.load_metadata
AuditAdded == SubSeq(load_metadata, Len(AuditBefore) + 1, Len(load_metadata))

SuccessRow(c) ==
    [table_name |-> c.table_name, records_loaded |-> c.records,
     load_status |-> "SUCCESS", error_message |-> NULL]
FailedRow(c) ==
    [table_name |-> c.table_name, records_loaded |-> 0,
     load_status |-> "FAILED", error_message |-> <<"write_error">>]
ExpectedRow(c) == IF c.write = "ok" THEN SuccessRow(c) ELSE FailedRow(c)

\* C1 (as stated): every load_to_raw call appends exactly one audit row, the
\* SUCCESS row of a write that succeeded or the FAILED row of one that failed,
\* so that after n calls the audit table has grown by exactly n rows.
C1_ExactlyOneAuditRowPerCall ==
    /\ AfterLoad => AuditAdded = <<ExpectedRow(Call)>>
    /\ Len(load_metadata) = audit_base + calls

\* C1 (amended): a load_to_raw call only appends to the audit table, and at
\* most one row: exactly the SUCCESS or FAILED row of the call when the audit
\* insert succeeds, and none when the audit insert itself fails.  After n
\* calls the audit table has grown by at most n rows.
C1_AtMostOneAuditRowPerCall ==
    /\ AfterLoad =>
         /\ Len(load_metadata) >= Len(AuditBefore)
         /\ SubSeq(load_metadata, 1, Len(AuditBefore)) = AuditBefore
         /\ AuditAdded = IF Call.audit_ok THEN <<ExpectedRow(Call)>> ELSE <<>>
    /\ Len(load_metadata) <= audit_base + calls

\* A write failed after an earlier call, and its FAILED row was recorded.
C1_Witness ==
    /\ AfterLoad /\ calls >= 2
    /\ Call.write = "failed" /\ Call.audit_ok
    /\ Len(load_metadata) > Len(AuditBefore)

\* C2: when the bulk write raises, load_to_raw attempts the FAILED audit row
\* and then raises the write's exception: it returns no row count, and the
\* error the caller sees is the write's even when the audit insert fails too.
C2_WriteFailureReachesCaller ==
    AfterLoad /\ Call.write = "failed" =>
        /\ Call.outcome = "raised"
        /\ Call.error = "write_error"
        /\ Call.value = NULL
        /\ Call.trace = <<"to_sql", "_log_load", "raise">>
        /\ Call.audit_ok => AuditAdded = <<FailedRow(Call)>>

\* The write failed and so did the audit insert.
C2_Witness ==
    /\ AfterLoad
    /\ Call.write = "failed" /\ ~Call.audit_ok
    /\ AuditAdded = <<>>

-----------------------------------------------------------------------------
(* Properties of the transformation runs *)

MartTable(w, derivation) ==
    CASE derivation = "inflation_by_state" -> w.mart_inflation_by_state
      [] derivation = "inflation_by_category" -> w.mart_inflation_by_category
      [] derivation = "state_comparison" -> w.mart_state_comparison

Derived(derivation, stg) ==
    CASE derivation = "inflation_by_state" -> InflationByStateQuery(stg)
      [] derivation = "inflation_by_category" -> InflationByCategoryQuery(stg)
      [] derivation = "state_comparison" -> StateComparisonQuery(stg, staging_states)

\* C3: MartTransformer.run_all runs the derivations in the order
\* inflation_by_state, inflation_by_category, state_comparison.  It returns
\* True only if all three completed, and False (it never raises) if derivation
\* k+1 raised: then the tables of the first k derivations hold their new
\* contents and the tables of the derivations after k+1 are as they were.
C3_MartRunAbortsWithoutRollback ==
    last_op = "mart.run_all" =>
        \E k \in 0..Len(MartOrder) :
            /\ mart_steps = SubSeq(MartOrder, 1, k)
            /\ mart_result = IF k = Len(MartOrder) THEN "True" ELSE "False"
            /\ \A i \in 1..k :
                  MartTable(Warehouse, MartOrder[i]) = Derived(MartOrder[i], staging_cpi_monthly)
            /\ \A i \in (k + 2)..Len(MartOrder) :
                  MartTable(Warehouse, MartOrder[i]) = MartTable(pre, MartOrder[i])

\* The second derivation raised: the first table is rewritten, the third still
\* has its earlier rows.
C3_Witness ==
    /\ last_op = "mart.run_all"
    /\ mart_steps = <<"inflation_by_state">>
    /\ mart_result = "False"
    /\ mart_inflation_by_state # pre.mart_inflation_by_state
    /\ mart_state_comparison # <<>>
    /\ mart_state_comparison # Derived("state_comparison", staging_cpi_monthly)

Reported == {"extract", "extract_cpi_data", "extract_categories",
             "load_to_database", "transform_staging", "transform_mart"}

\* C4: when extraction, load, staging transformation or mart transformation
\* fails, the run is reported as failed: main does not return 0 and the
\* Airflow task is not successful.
C4_StageFailureIsReported ==
    /\ runner = "script" /\ pc = "done" /\ failed_stages \cap Reported # {}
          => exit_code # <<0>>
    /\ runner = "dag" =>
          \A t \in Tasks \cap Reported :
              t \in failed_stages => task_state[t] # "success"

RunEnded ==
    \/ runner = "script" /\ pc = "done"
    \/ runner = "dag" /\ pc = "idle" /\ task_state["transform_mart"] = "success"

MartsDerivedFrom(stg) ==
    \A i \in 1..Len(MartOrder) :
        MartTable(Warehouse, MartOrder[i]) = Derived(MartOrder[i], stg)

\* C5 (as stated): at the end of every pipeline run, also one in which a stage
\* fails part way, each mart table equals its derivation of the
\* staging.cpi_monthly contents the most recent successful staging run wrote.
\* (Checked for the runs whose own staging run succeeded.)
C5_MartsAlwaysReflectLastStaging ==
    RunEnded /\ staging_result = "True" => MartsDerivedFrom(last_staged)

\* C5 (amended): when MartTransformer.run_all returned True, each mart table
\* equals its derivation of the current staging.cpi_monthly contents, which are
\* those of the most recent successful staging run if the run's staging
\* run_all returned True as well.
C5_MartsReflectStagingAfterSuccessfulMartRun ==
    mart_result = "True" =>
        /\ MartsDerivedFrom(staging_cpi_monthly)
        /\ staging_result = "True" => MartsDerivedFrom(last_staged)

\* A complete mart run replaced marts that an earlier snapshot had filled.
C5_Witness ==
    /\ RunEnded
    /\ staging_result = "True" /\ mart_result = "True"
    /\ pre.mart_inflation_by_state # <<>>
    /\ mart_inflation_by_state # <<>>
    /\ last_staged = CpiMonthlyQuery(upstream_cpi, upstream_categories)
    /\ audit_base > 0

CompleteRun ==
    /\ runner = "script" /\ pc = "done"
    /\ exit_code = <<0>> /\ failed_stages = {}

\* C6: a second complete run of the pipeline on the same upstream observations
\* and categories leaves the three mart tables as the first complete run left
\* them, whatever the warehouse held before.
C6_SecondRunLeavesMartsUnchanged ==
    CompleteRun /\ first_run_marts # NULL /\ first_run_marts[1].run < run
        => Marts = first_run_marts[1].marts

\* Two complete runs over a warehouse an earlier vintage had filled.
C6_Witness ==
    /\ CompleteRun /\ run = 2
    /\ first_run_marts # NULL /\ first_run_marts[1].run = 1
    /\ audit_base > 0
    /\ mart_state_comparison # <<>>
    /\ Len(raw_cpi_data) = Len(upstream_cpi)

\* C7 (as stated): no warehouse table grows with the number of times a task
\* was executed: however often load_to_database was retried, the audit table
\* holds what a single execution appends, at most two rows.
C7_NoTableGrowsWithRetries ==
    runner = "dag" /\ task_state["load_to_database"] = "success"
        => Len(load_metadata) - audit_base <= 2

\* C7 (amended): the raw, staging and mart tables are replaced as a whole, so
\* after a task succeeded, however many times it was executed, they hold what
\* one execution on the same input writes; raw.load_metadata is appended to,
\* by at most one row per load_to_raw call.
C7_DataTablesDoNotDependOnRetries ==
    /\ runner = "dag" /\ task_state["load_to_database"] = "success" =>
          /\ raw_cpi_data = file_cpi[1]
          /\ raw_categories = file_categories[1]
    /\ runner = "dag" /\ task_state["transform_staging"] = "success"
          /\ staging_result = "True" =>
          /\ staging_categories = CategoriesQuery(raw_categories)
          /\ staging_cpi_monthly = CpiMonthlyQuery(raw_cpi_data, raw_categories)
    /\ runner = "dag" /\ task_state["transform_mart"] = "success"
          /\ mart_result = "True" => MartsDerivedFrom(staging_cpi_monthly)
    /\ Len(load_metadata) <= audit_base + calls
    /\ Len(load_metadata) >= audit_base
    /\ SubSeq(load_metadata, 1, Len(pre.load_metadata)) = pre.load_metadata

\* load_to_database succeeded at its third execution, over a warehouse that
\* held rows before, and the audit table has more than two new rows.
C7_Witness ==
    /\ runner = "dag" /\ task_state["load_to_database"] = "success"
    /\ tries["load_to_database"] = Retries + 1
    /\ audit_base > 0
    /\ Len(load_metadata) - audit_base > 2
    /\ raw_cpi_data = upstream_cpi

-----------------------------------------------------------------------------
(* Properties of mart.state_comparison (checked under SpecMart) *)

ComparisonRows == Range(mart_state_comparison)

\* The least overall_cpi of the snapshot (index values are positive).
Cheapest ==
    CHOOSE m \in {r.overall_cpi : r \in ComparisonRows} \ {NULL} :
        \A r \in ComparisonRows : r.overall_cpi # NULL => ~RLess(r.overall_cpi, m)

\* C11: pct_vs_cheapest = (overall_cpi / minimum overall_cpi of the snapshot
\* - 1) * 100 (null for a state without overall_cpi): it is 0 for exactly the
\* states with the minimum overall_cpi, never negative, and strictly greater
\* for a state with strictly greater overall_cpi.
C11_PctVsCheapest ==
    Built("state_comparison") =>
        \A r \in ComparisonRows :
            IF r.overall_cpi = NULL THEN r.pct_vs_cheapest = NULL
            ELSE /\ r.pct_vs_cheapest # NULL
                 /\ r.pct_vs_cheapest = Percent(r.overall_cpi, Cheapest)
                 /\ (r.pct_vs_cheapest = Num(0)) <=> (r.overall_cpi = Cheapest)
                 /\ ~RLess(r.pct_vs_cheapest, Num(0))
                 /\ \A q \in ComparisonRows :
                       StrictlyGreater(q, r) =>
                           RLess(r.pct_vs_cheapest, q.pct_vs_cheapest)

\* Two states share the minimum and a third is dearer.
C11_Witness ==
    /\ Built("state_comparison")
    /\ Cardinality({r \in ComparisonRows : r.pct_vs_cheapest = Num(0)}) = 2
    /\ \E r \in ComparisonRows :
         r.pct_vs_cheapest # NULL /\ RLess(Num(0), r.pct_vs_cheapest)

-----------------------------------------------------------------------------
(* StagingTransformer: the transformations called on their own *)

\* A second 2-digit entry for division '01', and a 2-digit entry for division
\* '04' without English description.
FoodAgain ==
    [division |-> "01", desc_en |-> <<"Food and beverages">>,
     desc_bm |-> <<"Makanan dan minuman">>, digits |-> 2]
Unnamed ==
    [division |-> "04", desc_en |-> NULL, desc_bm |-> <<"Perumahan">>, digits |-> 2]

\* Contents of raw.categories: the dictionary, nothing, the dictionary without
\* division '07', with two entries for '01', with the unnamed '04'.
CategoryInputs ==
    {Dictionary,
     <<>>,
     SelectSeq(Dictionary, LAMBDA c : c.division # "07"),
     Dictionary \o <<FoodAgain>>,
     [i \in 1..Len(Dictionary) |->
        IF Dictionary[i].division = "04" THEN Unnamed ELSE Dictionary[i]]}

\* Contents of raw.cpi_data: panels of n months with state B's '04' and '07'
\* series added, and series with gaps and null index values.
StagingCpiInputs ==
    {Panel(n, 0) \o Series("B", "04", 1..n, LAMBDA d : PanelValue("B", "04", d, 0))
                 \o Series("B", "07", 1..n, LAMBDA d : PanelValue("B", "07", d, 0)) :
        n \in 0..MaxDates}
    \cup {LagInput(da, {}, <<100, 102, 101>>, z) : da \in {{1, 3}, {2}}, z \in 0..1}

stagingOnlyUnchanged ==
    <<extracted, sourceVars, fileVars, rawVars, martVars, loadVars, backupVars, dagVars,
      pc, exit_code, run, failed_stages, first_run_marts, last_staged, faults,
      staging_result>>

TransformCategories ==
    /\ runner = "staging"
    /\ "transform_categories" \notin Range(staging_steps)
    /\ LET df == CategoriesQuery(raw_categories)
       IN  \E outcome \in BuildOutcomes :
            /\ staging_categories' = Replaced(df, staging_categories, outcome)
            /\ staging_steps' = IF outcome = "ok"
                                THEN Append(staging_steps, "transform_categories")
                                ELSE staging_steps
    /\ Observed("transform_categories")
    /\ UNCHANGED <<stagingOnlyUnchanged, staging_cpi_monthly, validation>>

TransformCpiMonthly ==
    /\ runner = "staging"
    /\ "transform_cpi_monthly" \notin Range(staging_steps)
    /\ LET df == CpiMonthlyQuery(raw_cpi_data, raw_categories)
       IN  \E outcome \in BuildOutcomes :
            /\ staging_cpi_monthly' = Replaced(df, staging_cpi_monthly, outcome)
            /\ staging_steps' = IF outcome = "ok"
                                THEN Append(staging_steps, "transform_cpi_monthly")
                                ELSE staging_steps
    /\ Observed("transform_cpi_monthly")
    /\ UNCHANGED <<stagingOnlyUnchanged, staging_categories, validation>>

\* validate_staging compares the row counts, logs a warning when they differ
\* and returns True either way; it writes nothing.
ValidateStaging ==
    /\ runner = "staging"
    /\ "validate_staging" \notin Range(staging_steps)
    /\ LET v == Validation(raw_cpi_data, staging_cpi_monthly, TRUE)
       IN  /\ validation' = <<v>>
           /\ staging_steps' = IF v.raised THEN staging_steps
                               ELSE Append(staging_steps, "validate_staging")
    /\ last_op' = IF Len(raw_cpi_data) # Len(staging_cpi_monthly)
                  THEN "validate_staging: row count mismatch"
                  ELSE "validate_staging: row counts match"
    /\ pre' = Warehouse
    /\ UNCHANGED <<extracted, sourceVars, fileVars, rawVars, martVars, loadVars,
                   backupVars, dagVars, pc, exit_code, run, failed_stages,
                   first_run_marts, last_staged, faults, staging_result,
                   staging_categories, staging_cpi_monthly>>

\* run_all called once, on whatever the staging tables hold.
RunAll ==
    /\ runner = "staging"
    /\ staging_result = "not_called"
    /\ \E fail_at \in FailPoints(StagingOrder), dropped \in BOOLEAN :
         StagingRunAll(fail_at, dropped)
    /\ Observed("staging.run_all")
    /\ UNCHANGED <<extracted, sourceVars, fileVars, rawVars, martVars, loadVars,
                   backupVars, dagVars, pc, exit_code, run, failed_stages,
                   first_run_marts, faults>>

InitStaging ==
    /\ \E cpi \in StagingCpiInputs : upstream_cpi = cpi /\ raw_cpi_data = cpi
    /\ \E cats \in CategoryInputs : upstream_categories = cats /\ raw_categories = cats
    /\ upstream_columns = RequiredColumns
    /\ file_cpi = NULL
    /\ file_categories = NULL
    /\ load_metadata = <<>>
    /\ staging_categories = <<>>
    /\ staging_cpi_monthly = <<>>
    /\ staging_states = StateDimension
    /\ mart_inflation_by_state = <<>>
    /\ mart_inflation_by_category = <<>>
    /\ mart_state_comparison = <<>>
    /\ s3_objects = {}
    /\ runner = "staging"
    /\ pc = "idle"
    /\ run = 1
    /\ last_staged = <<>>
    /\ audit_base = 0
    /\ pre = Warehouse
    /\ faults = 0
    /\ RunStart

NextStaging ==
    \/ TransformCategories
    \/ TransformCpiMonthly
    \/ ValidateStaging
    \/ RunAll

SpecStaging == InitStaging /\ [][NextStaging]_vars

-----------------------------------------------------------------------------
(* Properties of the staging tables (checked under SpecStaging) *)

Transformed == "transform_cpi_monthly" \in Range(staging_steps)

\* The 2-digit rows of raw.categories for the division of observation c.
Matching(c) ==
    SelectSeq(raw_categories, LAMBDA cat : cat.division = c.division /\ cat.digits = 2)

\* C12 (as stated): after transform_cpi_monthly, staging.cpi_monthly has as
\* many rows as raw.cpi_data, whatever raw.cpi_data and raw.categories hold.
C12_RowCountConserved ==
    Transformed => Len(staging_cpi_monthly) = Len(raw_cpi_data)

RECURSIVE SumInts(_)
SumInts(ns) == IF ns = <<>> THEN 0 ELSE Head(ns) + SumInts(Tail(ns))

\* C12 (amended): after transform_cpi_monthly, every observation of
\* raw.cpi_data has one row in staging.cpi_monthly for each 2-digit row of
\* raw.categories with its division, and one row if there is none: no
\* observation is dropped, and the counts are equal when no division has two
\* 2-digit rows in raw.categories.
C12_RowCountConservedUnlessFanOut ==
    Transformed =>
        /\ Len(staging_cpi_monthly) =
              SumInts([i \in 1..Len(raw_cpi_data) |->
                         IF Matching(raw_cpi_data[i]) = <<>> THEN 1
                         ELSE Len(Matching(raw_cpi_data[i]))])
        /\ Len(staging_cpi_monthly) >= Len(raw_cpi_data)
        /\ (\A i \in 1..Len(raw_cpi_data) : Len(Matching(raw_cpi_data[i])) <= 1)
              => Len(staging_cpi_monthly) = Len(raw_cpi_data)

\* Observations joined to a dictionary with one 2-digit row a division, some
\* of them without a match; validate_staging found the counts equal.
C12_Witness ==
    /\ Transformed
    /\ last_op = "validate_staging: row counts match"
    /\ staging_steps[Len(staging_steps)] = "validate_staging"
    /\ Len(staging_cpi_monthly) > 3
    /\ \E i \in 1..Len(raw_cpi_data) : Len(Matching(raw_cpi_data[i])) = 1
    /\ \E i \in 1..Len(raw_cpi_data) : Matching(raw_cpi_data[i]) = <<>>

-----------------------------------------------------------------------------
(* S3Uploader: upload_data_backup called on its own *)

\* The snapshot files on disk when the backup starts: each present or absent.
CpiFiles == {NULL} \cup {<<Panel(n, 1)>> : n \in 0..MaxDates}
CategoryFiles == {NULL, <<Dictionary>>}

UploadBackup ==
    /\ runner = "backup"
    /\ run <= MaxRuns
    /\ \E outcome \in UploadChoices :
         LET b == UploadDataBackup(outcome)
         IN  /\ s3_objects' = b.objects
             /\ backup_results' = BackupResults(b)
    /\ run' = run + 1
    /\ last_op' = "upload_data_backup"
    /\ UNCHANGED <<extracted, sourceVars, fileVars, rawVars, stagingVars, martVars, loadVars,
                   dagVars, pc, exit_code, failed_stages, first_run_marts, pre,
                   faults>>

InitBackup ==
    /\ file_cpi \in CpiFiles
    /\ file_categories \in CategoryFiles
    /\ upstream_cpi = <<>>
    /\ upstream_columns = RequiredColumns
    /\ upstream_categories = Dictionary
    /\ raw_cpi_data = <<>>
    /\ raw_categories = <<>>
    /\ load_metadata = <<>>
    /\ staging_categories = <<>>
    /\ staging_cpi_monthly = <<>>
    /\ staging_states = StateDimension
    /\ mart_inflation_by_state = <<>>
    /\ mart_inflation_by_category = <<>>
    /\ mart_state_comparison = <<>>
    /\ s3_objects = {}
    /\ runner = "backup"
    /\ pc = "idle"
    /\ run = 1
    /\ last_staged = <<>>
    /\ audit_base = 0
    /\ pre = Warehouse
    /\ faults = 0
    /\ RunStart

NextBackup == UploadBackup

SpecBackup == InitBackup /\ [][NextBackup]_vars

-----------------------------------------------------------------------------
(* Properties of the backup (checked under SpecBackup) *)

AfterBackup == backup_results # NULL
Backup == backup_results[1]
LocalPaths == {BackupFiles[i].local : i \in 1..Len(BackupFiles)}
KeyOf(path) == (CHOOSE f \in Range(BackupFiles) : f.local = path).s3_key
Missing(path) == LocalFile(path) = NULL

\* The file at path was dealt with by a call that returned: its key is in
\* 'uploaded' or its path in 'failed'.
Processed(path) ==
    /\ ~Backup.raised
    /\ \/ KeyOf(path) \in Range(Backup.results[1].uploaded)
       \/ path \in Range(Backup.results[1].failed)

\* C13: for every file of the list that does not exist locally, the call does
\* not raise, the file's path is in 'failed', no upload was attempted for it,
\* and the other files of the list were processed.
C13_MissingFileIsRecorded ==
    AfterBackup =>
        \A path \in LocalPaths :
            Missing(path) =>
                /\ ~Backup.raised
                /\ path \in Range(Backup.results[1].failed)
                /\ path \notin Range(Backup.attempted)
                /\ \A other \in LocalPaths : Processed(other)

\* C14: a failed upload is isolated: the call returns, every file that exists
\* was handed to the storage client, and every file of the list is in exactly
\* one of 'uploaded' (by its key) and 'failed' (by its path).
C14_FailedUploadIsIsolated ==
    AfterBackup =>
        /\ ~Backup.raised
        /\ \A path \in LocalPaths :
              /\ ~Missing(path) => path \in Range(Backup.attempted)
              /\ (KeyOf(path) \in Range(Backup.results[1].uploaded))
                    # (path \in Range(Backup.results[1].failed))

-----------------------------------------------------------------------------
(* CPIExtractor: extract_full called on its own *)

\* The snapshot file before the call: absent, or saved by an earlier run.
SnapshotFiles == {NULL, <<EarlierPanel>>}

ExtractCall ==
    /\ runner = "extract"
    /\ run <= MaxRuns
    /\ \E fetch_ok \in BOOLEAN :
         LET cpi == ExtractFull(fetch_ok)
         IN  /\ file_cpi' = cpi.file
             /\ extracted' = Extracted(cpi, fetch_ok)
    /\ run' = run + 1
    /\ last_op' = "extract"
    /\ UNCHANGED <<sourceVars, file_categories, rawVars, stagingVars, martVars,
                   loadVars, backupVars, dagVars, pc, exit_code, failed_stages,
                   first_run_marts, pre, faults>>

InitExtract ==
    /\ upstream_cpi \in StagingCpiInputs
    /\ upstream_columns \in SUBSET RequiredColumns
    /\ upstream_categories = Dictionary
    /\ file_cpi \in SnapshotFiles
    /\ file_categories = NULL
    /\ raw_cpi_data = <<>>
    /\ raw_categories = <<>>
    /\ load_metadata = <<>>
    /\ staging_categories = <<>>
    /\ staging_cpi_monthly = <<>>
    /\ staging_states = StateDimension
    /\ mart_inflation_by_state = <<>>
    /\ mart_inflation_by_category = <<>>
    /\ mart_state_comparison = <<>>
    /\ s3_objects = {}
    /\ runner = "extract"
    /\ pc = "idle"
    /\ run = 1
    /\ last_staged = <<>>
    /\ audit_base = 0
    /\ pre = Warehouse
    /\ faults = 0
    /\ RunStart

NextExtract == ExtractCall

SpecExtract == InitExtract /\ [][NextExtract]_vars

-----------------------------------------------------------------------------
(* Properties of the extraction (checked under SpecExtract) *)

ColumnsMissing == RequiredColumns \ upstream_columns # {}

\* C15: extract_full validates before it saves.  When a required column is
\* missing from the fetched dataset the call raises, returns nothing and
\* leaves the snapshot file as it was; when the columns are there, nulls in
\* them only produce a warning and the dataset is saved and returned as
\* fetched.
C15_ValidatesBeforeSaving ==
    extracted # NULL =>
        LET x == extracted[1]
        IN  /\ ColumnsMissing =>
                  /\ x.raised
                  /\ x.returned = NULL
                  /\ file_cpi = x.file_before
            /\ ~ColumnsMissing /\ x.fetch_ok =>
                  /\ ~x.raised
                  /\ x.returned = <<upstream_cpi>>
                  /\ file_cpi = <<upstream_cpi>>
                  /\ x.warned <=> HasNulls(upstream_cpi)

\* The fetched dataset lacks the index column and an earlier snapshot exists:
\* the call raised and the snapshot is still there.
C15_Witness ==
    /\ extracted # NULL
    /\ extracted[1].fetch_ok /\ extracted[1].raised
    /\ upstream_columns = RequiredColumns \ {"index"}
    /\ file_cpi = <<EarlierPanel>>
    /\ upstream_cpi # EarlierPanel

-----------------------------------------------------------------------------
(* Properties of the stage order (checked under Spec) *)

\* What has run in the current run, and what completed successfully.
LoadStarted == last_call # NULL
StagingStarted == staging_result # "not_called"
MartStarted == mart_result # "not_called"
BackupStarted == backup_results # NULL

ExtractionsSucceeded ==
    /\ file_cpi # NULL /\ file_categories # NULL
    /\ failed_stages \cap {"extract", "extract_cpi_data", "extract_categories"} = {}
    /\ runner = "dag" =>
          /\ task_state["extract_cpi_data"] = "success"
          /\ task_state["extract_categories"] = "success"
LoadSucceeded ==
    /\ "load_to_database" \notin failed_stages
    /\ raw_cpi_data = file_cpi[1] /\ raw_categories = file_categories[1]
StagingSucceeded == staging_result = "True"
MartSucceeded == mart_result = "True"

\* C16: in every run a stage starts only after its upstream stages completed
\* successfully, in the order extractions, load, staging, mart, backup: load
\* not before both extractions, and no stage after an upstream stage failed.
C16_StageStartsAfterUpstreamSucceeded ==
    /\ LoadStarted => ExtractionsSucceeded
    /\ StagingStarted => LoadSucceeded
    /\ MartStarted => StagingSucceeded
    /\ BackupStarted => MartSucceeded

-----------------------------------------------------------------------------
(* Properties of staging.cpi_monthly (checked under SpecStaging) *)

StagingRows == Range(staging_cpi_monthly)
RawRows == Range(raw_cpi_data)

\* Staging row r carries the state, date, division and index of observation c.
CopyOf(r, c) ==
    /\ r.state = c.state /\ r.date = c.date
    /\ r.division = c.division /\ r.index_value = c.index

\* C17 (as stated): category_name is 'Overall' exactly when the division has
\* no 2-digit row in raw.categories, and otherwise the English description of
\* that row; state, date, division and index_value are those of an observation
\* of raw.cpi_data, and every observation has its row.
C17_OverallExactlyWhenNoCategory ==
    Transformed =>
        /\ \A r \in StagingRows :
              /\ \E c \in RawRows : CopyOf(r, c)
              /\ (r.category_name = <<"Overall">>) <=> (Matching(r) = <<>>)
              /\ Matching(r) # <<>> =>
                    \E m \in Range(Matching(r)) : r.category_name = m.desc_en
        /\ \A c \in RawRows : \E r \in StagingRows : CopyOf(r, c)

\* C17 (amended): category_name is the English description of a 2-digit row of
\* raw.categories with the observation's division, and 'Overall' when there is
\* no such row or its description is null; every observation has a row for
\* each such 2-digit row, with state, date, division and index_value copied.
C17_OverallWhenNoCategoryName ==
    Transformed =>
        /\ \A r \in StagingRows :
              /\ \E c \in RawRows : CopyOf(r, c)
              /\ r.category_name # NULL
              /\ IF Matching(r) = <<>> THEN r.category_name = <<"Overall">>
                 ELSE \E m \in Range(Matching(r)) :
                         r.category_name =
                            IF m.desc_en = NULL THEN <<"Overall">> ELSE m.desc_en
        /\ \A c \in RawRows :
              /\ \E r \in StagingRows : CopyOf(r, c)
              /\ \A m \in Range(Matching(c)) :
                    \E r \in StagingRows :
                        /\ CopyOf(r, c)
                        /\ r.category_name =
                              IF m.desc_en = NULL THEN <<"Overall">> ELSE m.desc_en

\* Rows named by their category, a row named 'Overall' for want of a
\* category, and one named 'Overall' because its category has no description.
C17_Witness ==
    /\ Transformed
    /\ \E r \in StagingRows : r.division = "01" /\ r.category_name = <<"Food">>
    /\ \E r \in StagingRows : r.division = "overall" /\ r.category_name = <<"Overall">>
    /\ \E r \in StagingRows :
         /\ r.division = "04" /\ r.category_name = <<"Overall">>
         /\ Matching(r) # <<>>

-----------------------------------------------------------------------------
(* Properties of mart.inflation_by_category (checked under SpecMart) *)

CategoryRows == Range(mart_inflation_by_category)
DivisionObservations ==
    SelectSeq(staging_cpi_monthly, LAMBDA r : r.division # "overall")
Groups == {CategoryKey(r) : r \in Range(DivisionObservations)}

\* The non-null index values of the observations of group g, state by state.
GroupValues(g) ==
    LET members == SelectSeq(DivisionObservations,
                             LAMBDA x : CategoryKey(x) = g /\ x.index_value # NULL)
    IN  [i \in 1..Len(members) |-> members[i].index_value]

\* The rows of r's division that are earlier than r, and the one k rows
\* before r in date order.
EarlierInDivision(r) ==
    {x \in CategoryRows : x.division = r.division /\ x.date < r.date}
DivisionRowsBack(r, k) ==
    CHOOSE x \in EarlierInDivision(r) :
        Cardinality({y \in EarlierInDivision(r) : y.date > x.date}) = k - 1

\* (avg / avg k rows earlier in the division - 1) * 100, null when there is no
\* such row or one of the two averages is null.
ChangeOverRows(r, k) ==
    IF Cardinality(EarlierInDivision(r)) < k THEN NULL
    ELSE IF r.avg_index = NULL \/ DivisionRowsBack(r, k).avg_index = NULL THEN NULL
    ELSE Percent(r.avg_index, DivisionRowsBack(r, k).avg_index)

\* C18: mart.inflation_by_category has no row for division 'overall' and
\* exactly one row per (date, division, category_name) group of the other
\* observations; avg_index is the mean of the group's index values over the
\* states that have one, and mom_change / yoy_change compare avg_index with the
\* avg_index 1 / 12 rows earlier in the date-ordered series of the division
\* (null when there is no such row).
C18_CategoryAverages ==
    Built("inflation_by_category") =>
        /\ Len(mart_inflation_by_category) = Cardinality(Groups)
        /\ \A g \in Groups : \E r \in CategoryRows : CategoryKey(r) = g
        /\ \A r \in CategoryRows :
              /\ r.division # "overall"
              /\ CategoryKey(r) \in Groups
              /\ LET values == GroupValues(CategoryKey(r))
                 IN  IF values = <<>> THEN r.avg_index = NULL
                     ELSE /\ r.avg_index # NULL
                          /\ RMul(r.avg_index, Num(Len(values))) = SumOf(values)
              /\ r.mom_change = ChangeOverRows(r, LagMonth)
              /\ r.yoy_change = ChangeOverRows(r, LagYear)

\* A group averaged over two states with different index values, a division
\* with a year-over-year change, and a second division with fewer rows.
C18_Witness ==
    /\ Built("inflation_by_category")
    /\ \E r \in CategoryRows :
         /\ Len(GroupValues(CategoryKey(r))) = 2
         /\ GroupValues(CategoryKey(r))[1] # GroupValues(CategoryKey(r))[2]
         /\ r.yoy_change # NULL
         /\ r.mom_change # NULL
    /\ \E r \in CategoryRows : r.division = "04" /\ r.mom_change = NULL
    /\ \E r \in CategoryRows : r.division = "04" /\ r.mom_change # NULL

-----------------------------------------------------------------------------
(* Properties of the snapshot in mart.state_comparison (checked under SpecMart) *)

StagedDates == {r.date : r \in Range(staging_cpi_monthly)}
LatestDate == CHOOSE d \in StagedDates : \A e \in StagedDates : e <= d
LatestObservations == {r \in Range(staging_cpi_monthly) : r.date = LatestDate}

\* The index of the state for the division among the observations latest, null
\* when the state has no such observation.
LatestIndex(latest, state, division) ==
    LET obs == {x \in latest : x.state = state /\ x.division = division}
    IN  IF obs = {} THEN NULL ELSE (CHOOSE x \in obs : TRUE).index_value

\* C19: mart.state_comparison is the snapshot of the most recent date of
\* staging.cpi_monthly: every row has that date as latest_date, there is
\* exactly one row per state observed on that date, and overall_cpi, food_cpi,
\* housing_cpi, transport_cpi are the state's index values on that date for
\* the divisions 'overall', '01', '04', '07' (null without such observation).
C19_SnapshotOfLatestDate ==
    Built("state_comparison") =>
        IF staging_cpi_monthly = <<>> THEN mart_state_comparison = <<>>
        ELSE LET max_date == LatestDate
                 latest == LatestObservations
                 states == {x.state : x \in latest}
             IN  /\ Len(mart_state_comparison) = Cardinality(states)
                 /\ \A state \in states :
                       \E r \in ComparisonRows : r.state = state
                 /\ \A r \in ComparisonRows :
                       /\ r.latest_date = max_date
                       /\ r.state \in states
                       /\ r.overall_cpi = LatestIndex(latest, r.state, "overall")
                       /\ r.food_cpi = LatestIndex(latest, r.state, "01")
                       /\ r.housing_cpi = LatestIndex(latest, r.state, "04")
                       /\ r.transport_cpi = LatestIndex(latest, r.state, "07")

\* Staging holds two dates; a state observed only on the earlier one has no
\* row, and a state without 'overall' observation on the latest one has a row
\* with its food index only.
C19_Witness ==
    /\ Built("state_comparison")
    /\ Cardinality(StagedDates) = 2
    /\ \E x \in Range(staging_cpi_monthly) :
         \A r \in ComparisonRows : r.state # x.state
    /\ \E r \in ComparisonRows : r.overall_cpi = NULL /\ r.food_cpi # NULL
    /\ \E r \in ComparisonRows : r.overall_cpi # NULL /\ r.region = NULL

-----------------------------------------------------------------------------
(* Properties of the rows of mart.inflation_by_state (checked under SpecMart) *)

StateRows == Range(mart_inflation_by_state)

\* C20: mart.inflation_by_state has exactly one row per 'overall' observation
\* of staging.cpi_monthly, one per (state, date), no row for an observation of
\* another division, and inflation_rate equals yoy_change in every row.
C20_OneRowPerOverallObservation ==
    Built("inflation_by_state") =>
        /\ OneRowPerObservation
        /\ \A r \in StateRows :
              /\ \E x \in Range(OverallRows) :
                    r.state = x.state /\ r.date = x.date /\ r.index_value = x.index_value
              /\ r.inflation_rate = r.yoy_change
              /\ \A q \in StateRows : q.state = r.state /\ q.date = r.date => q = r

\* Staging holds observations of other divisions too, and the table has rows
\* with and without a year-over-year change.
C20_Witness ==
    /\ Built("inflation_by_state")
    /\ Len(staging_cpi_monthly) > Len(OverallRows)
    /\ \E r \in StateRows : r.yoy_change # NULL /\ r.inflation_rate # NULL
    /\ \E r \in StateRows : r.yoy_change = NULL /\ r.mom_change # NULL


-----------------------------------------------------------------------------
(* Properties of validate_staging (checked under SpecStaging) *)

\* The last operation was validate_staging called on its own.
ValidatedAlone ==
    last_op \in {"validate_staging: row count mismatch",
                 "validate_staging: row counts match"}

\* The last operation was run_all and it reached validate_staging.
ValidatedInRunAll ==
    last_op = "staging.run_all" /\ Len(staging_steps) >= 2

\* The last validate_staging found differing row counts or nulls.
Findings ==
    /\ validation # NULL
    /\ validation[1].count_warning \/ validation[1].null_warning

RawAndStagingAsBefore ==
    /\ raw_cpi_data = pre.raw_cpi_data
    /\ raw_categories = pre.raw_categories
    /\ staging_categories = pre.staging_categories
    /\ staging_cpi_monthly = pre.staging_cpi_monthly

\* C21: when validate_staging finds differing row counts of raw.cpi_data and
\* staging.cpi_monthly, or nulls in staging.cpi_monthly, it still returns True
\* and run_all still returns True having completed all three steps; the
\* validation leaves the raw and staging tables as they were: as before the
\* call when it is called on its own, and as the two transformations wrote
\* them when it runs inside run_all.
C21_ValidationIsNonFatalAndReadOnly ==
    /\ Findings =>
          /\ ~validation[1].raised
          /\ validation[1].returned = <<"True">>
    /\ ValidatedAlone => RawAndStagingAsBefore
    /\ ValidatedInRunAll /\ Findings =>
          /\ staging_result = "True"
          /\ staging_steps = StagingOrder
          /\ raw_cpi_data = pre.raw_cpi_data
          /\ raw_categories = pre.raw_categories
          /\ staging_categories = CategoriesQuery(raw_categories)
          /\ staging_cpi_monthly = CpiMonthlyQuery(raw_cpi_data, raw_categories)

\* run_all returned after a validation that found both differing row counts
\* and nulls.
C21_Witness ==
    /\ ValidatedInRunAll
    /\ staging_result = "True"
    /\ validation # NULL
    /\ validation[1].count_warning
    /\ validation[1].null_warning


-----------------------------------------------------------------------------
(* Properties of StagingTransformer.run_all (checked under Spec) *)

\* Row c of staging.categories is a 2-digit row of the dictionary under its
\* staging names.
FromDictionary(c) ==
    \E i \in 1..Len(upstream_categories) :
        LET r == upstream_categories[i]
        IN  /\ r.digits = 2
            /\ c = [division |-> r.division, category_name_en |-> r.desc_en,
                    category_name_bm |-> r.desc_bm, category_level |-> r.digits]

\* C23: StagingTransformer.run_all runs transform_categories, then
\* transform_cpi_monthly, then validate_staging.  It returns True only if all
\* three completed, and False (it never raises) if step k+1 raised: then the
\* steps after k+1 did not run, staging.cpi_monthly is as it was if
\* transform_categories raised, and staging.categories holds its new contents
\* if a later step raised.  Every row of staging.categories is, at all times,
\* a dictionary row with digits = 2.
C23_StagingRunAbortsWithoutRollback ==
    /\ last_op = "staging.run_all" =>
          \E k \in 0..Len(StagingOrder) :
              /\ staging_steps = SubSeq(StagingOrder, 1, k)
              /\ staging_result = IF k = Len(StagingOrder) THEN "True" ELSE "False"
              /\ k >= 1 => staging_categories = CategoriesQuery(raw_categories)
              /\ k >= 2 => staging_cpi_monthly =
                              CpiMonthlyQuery(raw_cpi_data, raw_categories)
              /\ k = 0 => staging_cpi_monthly = pre.staging_cpi_monthly
              /\ k = Len(StagingOrder) =>
                    validation # NULL /\ validation[1].returned = <<"True">>
              /\ raw_cpi_data = pre.raw_cpi_data
              /\ raw_categories = pre.raw_categories
    /\ \A i \in 1..Len(staging_categories) :
          /\ staging_categories[i].category_level = 2
          /\ FromDictionary(staging_categories[i])

\* transform_categories raised: run_all returned False and staging.cpi_monthly
\* still has the rows of the earlier run, not those of the new raw data.
C23_Witness ==
    /\ last_op = "staging.run_all"
    /\ staging_steps = <<>>
    /\ staging_result = "False"
    /\ staging_cpi_monthly # <<>>
    /\ staging_cpi_monthly # CpiMonthlyQuery(raw_cpi_data, raw_categories)


-----------------------------------------------------------------------------
(* PostgreSQLLoader.load_to_raw called on its own, in each of its modes *)

IfExists == {"replace", "append", "fail"}

\* The datasets a caller passes for a table.
LoadInputs(table_name) ==
    IF table_name = "cpi_data"
    THEN {Panel(n, 1) : n \in 1..MaxDates}
    ELSE {Dictionary}

\* loader.load_to_raw(df, table_name, if_exists) on tables that exist.
LoadToRawCall ==
    /\ runner = "load"
    /\ run <= MaxRuns
    /\ \E table_name \in {"cpi_data", "categories"}, if_exists \in IfExists,
          write_ok \in BOOLEAN, dropped \in BOOLEAN, audit_ok \in BOOLEAN :
         \E df \in LoadInputs(table_name) :
            LET old == IF table_name = "cpi_data" THEN raw_cpi_data ELSE raw_categories
                c == LoadToRaw(old, load_metadata, df, table_name, if_exists,
                               write_ok, dropped, audit_ok)
            IN  /\ Fault(Cost(write_ok) + Cost(audit_ok))
                /\ raw_cpi_data' = IF table_name = "cpi_data" THEN c.rows ELSE raw_cpi_data
                /\ raw_categories' = IF table_name = "categories" THEN c.rows
                                     ELSE raw_categories
                /\ load_metadata' = c.metadata
                /\ last_call' = <<CallRecord(c) @@ [if_exists |-> if_exists, df |-> df]>>
    /\ calls' = calls + 1
    /\ run' = run + 1
    /\ Observed("load_to_raw")
    /\ UNCHANGED <<extracted, sourceVars, fileVars, stagingVars, martVars, backupVars,
                   dagVars, pc, exit_code, failed_stages, first_run_marts>>

InitLoad ==
    /\ upstream_cpi = Panel(MaxDates, 1)
    /\ upstream_columns = RequiredColumns
    /\ upstream_categories = Dictionary
    /\ file_cpi = NULL
    /\ file_categories = NULL
    /\ raw_cpi_data \in {<<>>, EarlierPanel}
    /\ raw_categories \in {<<>>, Dictionary}
    /\ load_metadata = <<>>
    /\ staging_categories = <<>>
    /\ staging_cpi_monthly = <<>>
    /\ staging_states = StateDimension
    /\ mart_inflation_by_state = <<>>
    /\ mart_inflation_by_category = <<>>
    /\ mart_state_comparison = <<>>
    /\ s3_objects = {}
    /\ runner = "load"
    /\ pc = "idle"
    /\ run = 1
    /\ last_staged = <<>>
    /\ audit_base = 0
    /\ pre = Warehouse
    /\ faults = 0
    /\ RunStart

NextLoad == LoadToRawCall

SpecLoad == InitLoad /\ [][NextLoad]_vars

-----------------------------------------------------------------------------
(* Properties of load_to_raw's modes (checked under SpecLoad) *)

\* The raw table the last call wrote to, in warehouse w.
RawTable(w) ==
    IF Call.table_name = "cpi_data" THEN w.raw_cpi_data ELSE w.raw_categories

\* C22: after a successful load_to_raw(rows, table, 'replace') the raw table
\* holds exactly the given rows, none of its previous ones, and the call
\* returns their number; with 'append' the table holds its previous rows
\* followed by the given rows; with 'fail' on an existing table the call
\* raises and the table is as it was.
C22_LoadModes ==
    AfterLoad =>
        /\ Call.outcome = "returned" /\ Call.if_exists = "replace" =>
              /\ RawTable(Warehouse) = Call.df
              /\ Call.value = <<Len(Call.df)>>
        /\ Call.outcome = "returned" /\ Call.if_exists = "append" =>
              RawTable(Warehouse) = RawTable(pre) \o Call.df
        /\ Call.if_exists = "fail" =>
              /\ Call.outcome = "raised"
              /\ RawTable(Warehouse) = RawTable(pre)

\* A successful replace of a table that held other rows.
C22_Witness ==
    /\ AfterLoad
    /\ Call.outcome = "returned" /\ Call.if_exists = "replace"
    /\ RawTable(pre) # <<>>
    /\ \E i \in 1..Len(RawTable(pre)) : RawTable(pre)[i] \notin Range(Call.df)
=============================================================================
